---- MODULE Spec2Model ----
(***************************************************************************)
(* Model of the project store (src/stores/projectStore.ts): the zustand    *)
(* state, its handlers, and the two pure helpers filterProjects and        *)
(* sortProjects.                                                           *)
(*                                                                         *)
(* Representation.                                                         *)
(*   - An optional value (a `?` field, `T | null`, `T | undefined`) is a   *)
(*     sequence of length at most one: None for absent, Some(v) for v.     *)
(*   - A JavaScript string that the code inspects (toLowerCase, includes,  *)
(*     <) is a sequence of one-character strings; a string the code only   *)
(*     compares with === is a TLA+ string.                                 *)
(*   - A Date is its getTime() value.                                      *)
(***************************************************************************)
EXTENDS Integers, Sequences, FiniteSets, TLC

VARIABLES
    projects,           \* ProjectState.projects
    selectedProject,    \* ProjectState.selectedProject
    projectSummary,     \* ProjectState.projectSummary
    isLoading,          \* ProjectState.isLoading
    error,              \* ProjectState.error
    filters,            \* ProjectState.filters
    searchText,         \* ProjectState.searchText
    sortBy,             \* ProjectState.sortBy
    sortDirection,      \* ProjectState.sortDirection
    isPanelOpen,        \* ProjectState.isPanelOpen
    isCreateModalOpen,  \* ProjectState.isCreateModalOpen
    isEditMode,         \* ProjectState.isEditMode
    call,               \* the last function called, with its arguments
    result,             \* what that call returned (None for a void handler)
    queryState,         \* useProjectsQuery: `state` of each component's hook
    fetches,            \* useProjectsQuery: the fetchProjects calls in flight
    mutationState,      \* use...ProjectMutation: `state` of each mutation hook
    mutations,          \* use...ProjectMutation: the mutate calls in flight
    cache,              \* QueryClient: the cached query of each query key
    time,               \* QueryClient: the time, in minutes
    observers,          \* QueryClient: the query keys a mounted useQuery observes
    fetching,           \* QueryClient: the query keys whose queryFn is running
    pending,            \* QueryClient: the mutationFn calls in flight
    queryProjects,      \* useQueryProjects: the four useState values of the hook
    fetchDataCalls,     \* useQueryProjects: the fetchData calls in flight
    fetchDataCount,     \* useQueryProjects: the number of fetchData calls made
    failures,           \* useProjects: failureCount of the list fetch under way
    attempts            \* useProjects: the queryFn calls of that fetch so far

dataVars == <<projects, selectedProject, projectSummary>>
uiVars == <<isLoading, error>>
viewVars == <<filters, searchText, sortBy, sortDirection>>
panelVars == <<isPanelOpen, isCreateModalOpen, isEditMode>>
queryVars == <<queryState, fetches>>
mutationVars == <<mutationState, mutations>>
cacheVars == <<cache, time, observers, fetching, pending>>
serviceVars == <<queryProjects, fetchDataCalls, fetchDataCount>>
retryVars == <<failures, attempts>>
hookVars == <<queryVars, mutationVars, cacheVars, serviceVars, retryVars>>
vars == <<dataVars, uiVars, viewVars, panelVars, call, result, hookVars>>

-----------------------------------------------------------------------------
(* Bounds of the model *)

\* longest collection the handlers are run on
MaxLen == 3

\* longest collection the bulk handlers are run on
MaxBulkLen == 2

\* longest collection the filtered view is read on
MaxFilterLen == 2

-----------------------------------------------------------------------------
(* Optional values and JavaScript strings *)

None == <<>>
Some(v) == <<v>>
IsSome(o) == o # None
ValueOf(o) == o[1]

\* `x || 0` on an optional number
OrZero(o) == IF IsSome(o) /\ ValueOf(o) # 0 THEN ValueOf(o) ELSE 0

\* String.prototype.toLowerCase, on the alphabet of the model
LowerChar(c) ==
    CASE c = "A" -> "a"
      [] c = "B" -> "b"
      [] c = "X" -> "x"
      [] c = "Y" -> "y"
      [] OTHER -> c

toLowerCase(s) == [i \in 1..Len(s) |-> LowerChar(s[i])]

\* String.prototype.includes
includes(s, t) ==
    \E i \in 0..(Len(s) - Len(t)) : SubSeq(s, i + 1, i + Len(t)) = t

\* UTF-16 code unit of a character of the model's alphabet
CharCode(c) ==
    CASE c = "A" -> 65
      [] c = "B" -> 66
      [] c = "X" -> 88
      [] c = "Y" -> 89
      [] c = "a" -> 97
      [] c = "b" -> 98
      [] c = "x" -> 120
      [] c = "y" -> 121

\* s < t on JavaScript strings: lexicographic on code units
RECURSIVE StrLess(_, _)
StrLess(s, t) ==
    IF t = <<>> THEN FALSE
    ELSE IF s = <<>> THEN TRUE
    ELSE IF CharCode(Head(s)) # CharCode(Head(t))
         THEN CharCode(Head(s)) < CharCode(Head(t))
         ELSE StrLess(Tail(s), Tail(t))

-----------------------------------------------------------------------------
(* Enumerations *)

NotStarted == 0
InProgress == 1
Completed == 2
OnHold == 3
Cancelled == 4
UnderReview == 5
Approved == 6
Rejected == 7

Low == 0
Medium == 1
High == 2
Critical == 3

-----------------------------------------------------------------------------
(* Records the handlers are run on *)

\* interface Project; the fields no modelled code reads are left out
Project(id, name, status, startDate, owner, priority, progress, budget, tags, modified) ==
    [Id |-> id, Name |-> name, Status |-> status, StartDate |-> startDate,
     Owner |-> owner, Priority |-> priority, Progress |-> progress,
     Budget |-> budget, Tags |-> tags, ModifiedDate |-> modified]

\* r1, r2, r3 differ pairwise in every sort key; r4 has r1's Id and ties with
\* r1 on every sort key (by case, by a missing value against 0).
r1 == Project(1, <<"A", "b">>, InProgress, None, Some("alice"), None, None,
              None, Some(<< <<"X", "y">> >>), None)
r2 == Project(2, <<"b">>, NotStarted, Some(1), Some("bob"), Some(High), Some(50),
              Some(10), Some(<<>>), Some(1))
r3 == Project(3, <<"a">>, Completed, Some(2), Some("alice"), Some(Medium),
              Some(100), Some(20), Some(<< <<"y">>, <<"b">> >>), None)
r4 == Project(1, <<"a", "b">>, InProgress, Some(0), None, Some(Low), Some(0),
              Some(0), None, Some(0))

ProjectPool == {r1, r2, r3, r4}

RECURSIVE SeqsUpTo(_, _)
SeqsUpTo(S, n) ==
    IF n = 0 THEN {<<>>}
    ELSE LET shorter == SeqsUpTo(S, n - 1)
         IN  shorter \cup {Append(s, x) : s \in {t \in shorter : Len(t) = n - 1}, x \in S}

Collections == SeqsUpTo(ProjectPool, MaxLen)

-----------------------------------------------------------------------------
(* The hooks before any component has used them *)

\* the components that call useProjectsQuery, and the one that calls
\* useProjectQuery
HookIds == {1, 2}
ProjectHookIds == {3}

\* useProjectsQuery: the argument of useState
initialQueryState ==
    [data |-> None, isLoading |-> TRUE, error |-> None,
     isError |-> FALSE, isSuccess |-> FALSE]

\* useCreateProjectMutation, useUpdateProjectMutation, useDeleteProjectMutation
MutationKinds == {"create", "update", "delete"}

\* use...ProjectMutation: the argument of useState (without its two functions)
initialMutationState ==
    [data |-> None, isLoading |-> FALSE, error |-> None,
     isError |-> FALSE, isSuccess |-> FALSE]

\* projectKeys
projectKeys_all == <<"projects">>
projectKeys_lists == projectKeys_all \o <<"list">>
projectKeys_list(filtersArg) == projectKeys_lists \o <<filtersArg>>
projectKeys_details == projectKeys_all \o <<"detail">>
projectKeys_detail(id) == projectKeys_details \o <<id>>
projectKeys_summary == projectKeys_all \o <<"summary">>

\* the filters useProjects is called with, and the ids useProject is called with
ListFilters == {None, Some(InProgress)}
DetailIds == {1, 3}

QueryKeys ==
    {projectKeys_list(f) : f \in ListFilters}
        \cup {projectKeys_detail(id) : id \in DetailIds}
        \cup {projectKeys_summary}

HooksIdle ==
    /\ queryState = [h \in HookIds \cup ProjectHookIds |-> None]
    /\ fetches = <<>>
    /\ mutationState = [k \in MutationKinds |-> initialMutationState]
    /\ mutations = <<>>
    /\ cache = [k \in QueryKeys |-> None]
    /\ time = 0
    /\ observers = {}
    /\ fetching = {}
    /\ pending = <<>>
    /\ queryProjects = None
    /\ fetchDataCalls = {}
    /\ fetchDataCount = 0
    /\ failures = 0
    /\ attempts = 0

-----------------------------------------------------------------------------
(* The store after construction *)

initialFilters ==
    [status |-> None, priority |-> None, owner |-> None, searchText |-> None,
     startDateFrom |-> None, startDateTo |-> None, tags |-> None]

Init ==
    /\ projects = <<>>
    /\ selectedProject = None
    /\ projectSummary = None
    /\ isLoading = FALSE
    /\ error = None
    /\ filters = initialFilters
    /\ searchText = <<>>
    /\ sortBy = "name"
    /\ sortDirection = "asc"
    /\ isPanelOpen = FALSE
    /\ isCreateModalOpen = FALSE
    /\ isEditMode = FALSE
    /\ call = [op |-> "create"]
    /\ result = None
    /\ HooksIdle

-----------------------------------------------------------------------------
(* Data handlers *)

\* fault: the fetched records are stored but a reported error is kept
setProjects_keepsError(ps) ==
    /\ projects' = ps
    /\ error' = error
    /\ call' = [op |-> "setProjects", projects |-> ps]
    /\ result' = None
    /\ UNCHANGED <<selectedProject, projectSummary, isLoading, viewVars, panelVars, hookVars>>

setProjects(ps) ==
    /\ projects' = ps
    /\ error' = None
    /\ call' = [op |-> "setProjects", projects |-> ps]
    /\ result' = None
    /\ UNCHANGED <<selectedProject, projectSummary, isLoading, viewVars, panelVars, hookVars>>

\* fault: a record whose Id is already stored is not added
addProject_dedup(p) ==
    /\ projects' = IF \E i \in 1..Len(projects) : projects[i].Id = p.Id
                   THEN projects ELSE Append(projects, p)
    /\ call' = [op |-> "addProject", project |-> p]
    /\ result' = None
    /\ UNCHANGED <<selectedProject, projectSummary, uiVars, viewVars, panelVars, hookVars>>

addProject(p) ==
    /\ projects' = Append(projects, p)
    /\ call' = [op |-> "addProject", project |-> p]
    /\ result' = None
    /\ UNCHANGED <<selectedProject, projectSummary, uiVars, viewVars, panelVars, hookVars>>

\* fault: the updated record is moved to the end of the collection
updateProject_reappend(updatedProject) ==
    /\ projects' =
           IF \E i \in 1..Len(projects) : projects[i].Id = updatedProject.Id
           THEN Append(SelectSeq(projects, LAMBDA p : p.Id # updatedProject.Id),
                       updatedProject)
           ELSE projects
    /\ selectedProject' =
           IF IsSome(selectedProject) /\ ValueOf(selectedProject).Id = updatedProject.Id
           THEN Some(updatedProject) ELSE selectedProject
    /\ call' = [op |-> "updateProject", project |-> updatedProject]
    /\ result' = None
    /\ UNCHANGED <<projectSummary, uiVars, viewVars, panelVars, hookVars>>

updateProject(updatedProject) ==
    /\ projects' = [i \in 1..Len(projects) |->
                       IF projects[i].Id = updatedProject.Id
                       THEN updatedProject ELSE projects[i]]
    /\ selectedProject' =
           IF IsSome(selectedProject) /\ ValueOf(selectedProject).Id = updatedProject.Id
           THEN Some(updatedProject) ELSE selectedProject
    /\ call' = [op |-> "updateProject", project |-> updatedProject]
    /\ result' = None
    /\ UNCHANGED <<projectSummary, uiVars, viewVars, panelVars, hookVars>>

\* fault: the selection is cleared only when the removed record was stored
removeProject_staleSelection(projectId) ==
    /\ projects' = SelectSeq(projects, LAMBDA p : p.Id # projectId)
    /\ selectedProject' =
           IF /\ IsSome(selectedProject)
              /\ ValueOf(selectedProject).Id = projectId
              /\ \E i \in 1..Len(projects) : projects[i].Id = projectId
           THEN None ELSE selectedProject
    /\ call' = [op |-> "removeProject", projectId |-> projectId]
    /\ result' = None
    /\ UNCHANGED <<projectSummary, uiVars, viewVars, panelVars, hookVars>>

removeProject(projectId) ==
    /\ projects' = SelectSeq(projects, LAMBDA p : p.Id # projectId)
    /\ selectedProject' =
           IF IsSome(selectedProject) /\ ValueOf(selectedProject).Id = projectId
           THEN None ELSE selectedProject
    /\ call' = [op |-> "removeProject", projectId |-> projectId]
    /\ result' = None
    /\ UNCHANGED <<projectSummary, uiVars, viewVars, panelVars, hookVars>>

setSelectedProject(project) ==
    /\ selectedProject' = project
    /\ call' = [op |-> "setSelectedProject", project |-> project]
    /\ result' = None
    /\ UNCHANGED <<projects, projectSummary, uiVars, viewVars, panelVars, hookVars>>

setError(e) ==
    /\ error' = e
    /\ isLoading' = FALSE
    /\ call' = [op |-> "setError", error |-> e]
    /\ result' = None
    /\ UNCHANGED <<dataVars, viewVars, panelVars, hookVars>>

-----------------------------------------------------------------------------
(* The store driven through its data handlers *)

ErrorPool == {None, Some("Failed to load")}

SetProjects == \E ps \in Collections : setProjects(ps)
AddProject == \E p \in ProjectPool : Len(projects) < MaxLen /\ addProject(p)
UpdateProject == \E p \in ProjectPool : updateProject(p)
RemoveProject == \E id \in {p.Id : p \in ProjectPool} : removeProject(id)
SetSelectedProject == \E s \in {None} \cup {Some(p) : p \in ProjectPool} : setSelectedProject(s)
SetError == \E e \in ErrorPool : setError(e)

Next ==
    \/ SetProjects
    \/ AddProject
    \/ UpdateProject
    \/ RemoveProject
    \/ SetSelectedProject
    \/ SetError

Spec == Init /\ [][Next]_vars

-----------------------------------------------------------------------------
(* Bulk handlers.  `new Date()` reads the clock: the time read is the        *)
(* parameter now.                                                            *)

\* fault: the patch is applied to every record, whatever its Id
bulkUpdateStatus_all(projectIds, status, now) ==
    /\ projects' = [i \in 1..Len(projects) |->
                       [projects[i] EXCEPT !.Status = status,
                                           !.ModifiedDate = Some(now)]]
    /\ call' = [op |-> "bulkUpdateStatus", projectIds |-> projectIds,
                value |-> status, now |-> now]
    /\ result' = None
    /\ UNCHANGED <<selectedProject, projectSummary, uiVars, viewVars, panelVars, hookVars>>

bulkUpdateStatus(projectIds, status, now) ==
    /\ projects' = [i \in 1..Len(projects) |->
                       IF projects[i].Id \in projectIds
                       THEN [projects[i] EXCEPT !.Status = status,
                                                !.ModifiedDate = Some(now)]
                       ELSE projects[i]]
    /\ call' = [op |-> "bulkUpdateStatus", projectIds |-> projectIds,
                value |-> status, now |-> now]
    /\ result' = None
    /\ UNCHANGED <<selectedProject, projectSummary, uiVars, viewVars, panelVars, hookVars>>

bulkUpdatePriority(projectIds, priority, now) ==
    /\ projects' = [i \in 1..Len(projects) |->
                       IF projects[i].Id \in projectIds
                       THEN [projects[i] EXCEPT !.Priority = Some(priority),
                                                !.ModifiedDate = Some(now)]
                       ELSE projects[i]]
    /\ call' = [op |-> "bulkUpdatePriority", projectIds |-> projectIds,
                value |-> priority, now |-> now]
    /\ result' = None
    /\ UNCHANGED <<selectedProject, projectSummary, uiVars, viewVars, panelVars, hookVars>>

\* the store once setProjects has loaded a collection
Loaded(ps) ==
    /\ projects = ps
    /\ selectedProject = None
    /\ projectSummary = None
    /\ isLoading = FALSE
    /\ error = None
    /\ filters = initialFilters
    /\ searchText = <<>>
    /\ sortBy = "name"
    /\ sortDirection = "asc"
    /\ isPanelOpen = FALSE
    /\ isCreateModalOpen = FALSE
    /\ isEditMode = FALSE
    /\ call = [op |-> "setProjects", projects |-> ps]
    /\ result = None
    /\ HooksIdle

IdSets == SUBSET {p.Id : p \in ProjectPool}
BulkStatuses == {NotStarted, OnHold}
BulkPriorities == {Low, Critical}
Clock == {9}

InitBulk == \E ps \in SeqsUpTo(ProjectPool, MaxBulkLen) : Loaded(ps)

BulkUpdateStatus ==
    \E ids \in IdSets, s \in BulkStatuses, now \in Clock : bulkUpdateStatus(ids, s, now)

BulkUpdatePriority ==
    \E ids \in IdSets, pr \in BulkPriorities, now \in Clock : bulkUpdatePriority(ids, pr, now)

NextBulk ==
    \/ BulkUpdateStatus
    \/ BulkUpdatePriority

SpecBulk == InitBulk /\ [][NextBulk]_vars

-----------------------------------------------------------------------------
(* filterProjects *)

\* an optional string used as a condition: present and not empty
Truthy(o) == IsSome(o) /\ ValueOf(o) # ""

\* the tags test of filterProjects: some filter tag is, ignoring case, part of
\* some tag of the project
hasMatchingTag(project, filterTags) ==
    LET projectTags == IF IsSome(project.Tags) THEN ValueOf(project.Tags) ELSE <<>>
    IN  \E i \in 1..Len(filterTags) : \E j \in 1..Len(projectTags) :
            includes(toLowerCase(projectTags[j]), toLowerCase(filterTags[i]))

\* fault: the status test is not guarded by `filters.status !== undefined`
passesFilter_unguardedStatus(project, fs, text) ==
    IF text # <<>> /\ ~includes(toLowerCase(project.Name), toLowerCase(text))
    THEN FALSE
    ELSE IF Some(project.Status) # fs.status
    THEN FALSE
    ELSE IF IsSome(fs.priority) /\ project.Priority # fs.priority
    THEN FALSE
    ELSE IF Truthy(fs.owner) /\ project.Owner # fs.owner
    THEN FALSE
    ELSE IF /\ IsSome(fs.startDateFrom) /\ IsSome(project.StartDate)
            /\ ValueOf(project.StartDate) < ValueOf(fs.startDateFrom)
    THEN FALSE
    ELSE IF /\ IsSome(fs.startDateTo) /\ IsSome(project.StartDate)
            /\ ValueOf(project.StartDate) > ValueOf(fs.startDateTo)
    THEN FALSE
    ELSE IF /\ IsSome(fs.tags) /\ Len(ValueOf(fs.tags)) > 0
            /\ ~hasMatchingTag(project, ValueOf(fs.tags))
    THEN FALSE
    ELSE TRUE

\* fault: a start date equal to startDateFrom is filtered out
passesFilter_exclusiveFrom(project, fs, text) ==
    IF text # <<>> /\ ~includes(toLowerCase(project.Name), toLowerCase(text))
    THEN FALSE
    ELSE IF IsSome(fs.status) /\ project.Status # ValueOf(fs.status)
    THEN FALSE
    ELSE IF IsSome(fs.priority) /\ project.Priority # fs.priority
    THEN FALSE
    ELSE IF Truthy(fs.owner) /\ project.Owner # fs.owner
    THEN FALSE
    ELSE IF /\ IsSome(fs.startDateFrom) /\ IsSome(project.StartDate)
            /\ ValueOf(project.StartDate) <= ValueOf(fs.startDateFrom)
    THEN FALSE
    ELSE IF /\ IsSome(fs.startDateTo) /\ IsSome(project.StartDate)
            /\ ValueOf(project.StartDate) > ValueOf(fs.startDateTo)
    THEN FALSE
    ELSE IF /\ IsSome(fs.tags) /\ Len(ValueOf(fs.tags)) > 0
            /\ ~hasMatchingTag(project, ValueOf(fs.tags))
    THEN FALSE
    ELSE TRUE

\* the callback of projects.filter: one early return per test, in the code's order
passesFilter(project, fs, text) ==
    IF text # <<>> /\ ~includes(toLowerCase(project.Name), toLowerCase(text))
    THEN FALSE
    ELSE IF IsSome(fs.status) /\ project.Status # ValueOf(fs.status)
    THEN FALSE
    ELSE IF IsSome(fs.priority) /\ project.Priority # fs.priority
    THEN FALSE
    ELSE IF Truthy(fs.owner) /\ project.Owner # fs.owner
    THEN FALSE
    ELSE IF /\ IsSome(fs.startDateFrom) /\ IsSome(project.StartDate)
            /\ ValueOf(project.StartDate) < ValueOf(fs.startDateFrom)
    THEN FALSE
    ELSE IF /\ IsSome(fs.startDateTo) /\ IsSome(project.StartDate)
            /\ ValueOf(project.StartDate) > ValueOf(fs.startDateTo)
    THEN FALSE
    ELSE IF /\ IsSome(fs.tags) /\ Len(ValueOf(fs.tags)) > 0
            /\ ~hasMatchingTag(project, ValueOf(fs.tags))
    THEN FALSE
    ELSE TRUE

filterProjects(ps, fs, text) == SelectSeq(ps, LAMBDA p : passesFilter(p, fs, text))

-----------------------------------------------------------------------------
(* sortProjects *)

SortFields == {"name", "status", "priority", "startDate", "progress"}
SortDirections == {"asc", "desc"}

\* aValue / bValue of the comparator
sortValue(p, by) ==
    CASE by = "name" -> toLowerCase(p.Name)
      [] by = "status" -> p.Status
      [] by = "priority" -> OrZero(p.Priority)
      [] by = "startDate" -> IF IsSome(p.StartDate) THEN ValueOf(p.StartDate) ELSE 0
      [] by = "progress" -> OrZero(p.Progress)

\* aValue < bValue
valueLess(by, aValue, bValue) ==
    IF by = "name" THEN StrLess(aValue, bValue) ELSE aValue < bValue

\* fault: the direction is not looked at
compare_ascOnly(a, b, by, direction) ==
    IF by \notin SortFields THEN 0
    ELSE IF valueLess(by, sortValue(a, by), sortValue(b, by)) THEN 0 - 1
    ELSE IF valueLess(by, sortValue(b, by), sortValue(a, by)) THEN 1
    ELSE 0

\* the comparator handed to Array.prototype.sort
compare(a, b, by, direction) ==
    IF by \notin SortFields THEN 0
    ELSE IF valueLess(by, sortValue(a, by), sortValue(b, by))
         THEN (IF direction = "asc" THEN 0 - 1 ELSE 1)
    ELSE IF valueLess(by, sortValue(b, by), sortValue(a, by))
         THEN (IF direction = "asc" THEN 1 ELSE 0 - 1)
    ELSE 0

\* Array.prototype.sort: a stable sort; x goes behind every element that does
\* not compare greater than it
RECURSIVE Insert(_, _, _, _)
Insert(sorted, x, by, direction) ==
    IF sorted = <<>> THEN <<x>>
    ELSE LET last == sorted[Len(sorted)]
         IN  IF compare(last, x, by, direction) > 0
             THEN Append(Insert(SubSeq(sorted, 1, Len(sorted) - 1), x, by, direction), last)
             ELSE Append(sorted, x)

RECURSIVE ArraySort(_, _, _)
ArraySort(arr, by, direction) ==
    IF arr = <<>> THEN <<>>
    ELSE Insert(ArraySort(SubSeq(arr, 1, Len(arr) - 1), by, direction),
                arr[Len(arr)], by, direction)

Reverse(s) == [i \in 1..Len(s) |-> s[Len(s) + 1 - i]]

\* fault: descending order is made by reversing the ascending order
sortProjects_reverseForDesc(ps, by, direction) ==
    IF direction = "asc" THEN ArraySort(ps, by, "asc")
    ELSE Reverse(ArraySort(ps, by, "asc"))

sortProjects(ps, by, direction) == ArraySort(ps, by, direction)

-----------------------------------------------------------------------------
(* View handlers and computed values *)

setFilters(newFilters) ==
    /\ filters' = [k \in DOMAIN filters |->
                      IF k \in DOMAIN newFilters THEN newFilters[k] ELSE filters[k]]
    /\ call' = [op |-> "setFilters", filters |-> newFilters]
    /\ result' = None
    /\ UNCHANGED <<dataVars, uiVars, searchText, sortBy, sortDirection, panelVars, hookVars>>

setSearchText(text) ==
    /\ searchText' = text
    /\ filters' = [filters EXCEPT !.searchText = Some(text)]
    /\ call' = [op |-> "setSearchText", text |-> text]
    /\ result' = None
    /\ UNCHANGED <<dataVars, uiVars, sortBy, sortDirection, panelVars, hookVars>>

setSorting(by, direction) ==
    /\ sortBy' = by
    /\ sortDirection' = direction
    /\ call' = [op |-> "setSorting", sortBy |-> by, sortDirection |-> direction]
    /\ result' = None
    /\ UNCHANGED <<dataVars, uiVars, filters, searchText, panelVars, hookVars>>

getFilteredProjects ==
    /\ result' = filterProjects(projects, filters, searchText)
    /\ call' = [op |-> "getFilteredProjects"]
    /\ UNCHANGED <<dataVars, uiVars, viewVars, panelVars, hookVars>>

\* fault: the stored array is sorted in place and returned
getSortedProjects_inPlace ==
    /\ projects' = sortProjects(projects, sortBy, sortDirection)
    /\ result' = filterProjects(projects', filters, searchText)
    /\ call' = [op |-> "getSortedProjects"]
    /\ UNCHANGED <<selectedProject, projectSummary, uiVars, viewVars, panelVars, hookVars>>

getSortedProjects ==
    /\ result' = sortProjects(filterProjects(projects, filters, searchText),
                              sortBy, sortDirection)
    /\ call' = [op |-> "getSortedProjects"]
    /\ UNCHANGED <<dataVars, uiVars, viewVars, panelVars, hookVars>>

\* a direct call sortProjects(ps, by, direction) of the helper
callSortProjects(ps, by, direction) ==
    /\ result' = sortProjects(ps, by, direction)
    /\ call' = [op |-> "sortProjects", projects |-> ps, sortBy |-> by,
                sortDirection |-> direction]
    /\ UNCHANGED <<dataVars, uiVars, viewVars, panelVars, hookVars>>

-----------------------------------------------------------------------------
(* The filtered view: a loaded store driven through setFilters and           *)
(* setSearchText, and read through getFilteredProjects                       *)

\* the arguments of setFilters: one criterion set or cleared per call
FilterPatches ==
    {[status |-> v] : v \in {None, Some(NotStarted)}}
    \cup {[priority |-> v] : v \in {None, Some(Low)}}
    \cup {[owner |-> v] : v \in {None, Some("alice")}}
    \cup {[searchText |-> v] : v \in {None, Some(<<"b">>)}}
    \cup {[startDateFrom |-> v] : v \in {None, Some(1)}}
    \cup {[startDateTo |-> v] : v \in {None, Some(1)}}
    \cup {[tags |-> v] : v \in {None, Some(<<>>), Some(<< <<"z">>, <<"Y">> >>)}}

SearchTexts == {<<>>, <<"a", "B">>}

InitFilter == \E ps \in SeqsUpTo(ProjectPool, MaxFilterLen) : Loaded(ps)

SetFilters == \E f \in FilterPatches : setFilters(f)
SetSearchText == \E t \in SearchTexts : setSearchText(t)
GetFilteredProjects == getFilteredProjects

NextFilter ==
    \/ SetFilters
    \/ SetSearchText
    \/ GetFilteredProjects

SpecFilter == InitFilter /\ [][NextFilter]_vars

-----------------------------------------------------------------------------
(* The sorted view: a loaded store driven through setSorting and            *)
(* setSearchText and read through getSortedProjects                          *)

InitSort == \E ps \in Collections : Loaded(ps)

SetSorting == \E by \in SortFields, d \in SortDirections : setSorting(by, d)
SortSearchTexts == {<<>>, <<"b">>}
SetSortSearchText == \E t \in SortSearchTexts : setSearchText(t)
GetSortedProjects == getSortedProjects

NextSort ==
    \/ SetSorting
    \/ SetSortSearchText
    \/ GetSortedProjects

SpecSort == InitSort /\ [][NextSort]_vars

-----------------------------------------------------------------------------
(* The helper sortProjects called on the stored collection, and called       *)
(* again on what it returned                                                 *)

SortProjects ==
    \E by \in SortFields, d \in SortDirections : callSortProjects(projects, by, d)
SortProjectsAgain ==
    /\ call.op = "sortProjects"
    /\ \E by \in SortFields, d \in SortDirections : callSortProjects(result, by, d)

NextSortHelper ==
    \/ SortProjects
    \/ SortProjectsAgain

SpecSortHelper == InitSort /\ [][NextSortHelper]_vars

-----------------------------------------------------------------------------
(* Summary.  averageProgress is a quotient of two integers: it is kept as    *)
(* the pair of its numerator and denominator, which names the exact value    *)
(* num / den (the rounding of the IEEE quotient is not modelled).            *)

MaxSummaryLen == 2

Quotient(n, d) == [num |-> n, den |-> d]

\* projects.filter(p => p.Status === status).length
CountStatus(ps, status) == Len(SelectSeq(ps, LAMBDA p : p.Status = status))

\* projects.reduce((sum, p) => sum + (p.Progress || 0), 0)
RECURSIVE totalProgress(_)
totalProgress(ps) ==
    IF ps = <<>> THEN 0
    ELSE totalProgress(SubSeq(ps, 1, Len(ps) - 1)) + OrZero(ps[Len(ps)].Progress)

\* projects.reduce((sum, p) => sum + (p.Budget || 0), 0)
RECURSIVE totalBudget(_)
totalBudget(ps) ==
    IF ps = <<>> THEN 0
    ELSE totalBudget(SubSeq(ps, 1, Len(ps) - 1)) + OrZero(ps[Len(ps)].Budget)

\* fault: a project under review is counted as active and as nothing else,
\* and the total is the sum of the four buckets
summary_bucketsOnly(ps) ==
    LET active == CountStatus(ps, InProgress) + CountStatus(ps, UnderReview)
    IN  [totalProjects      |-> active + CountStatus(ps, Completed)
                                 + CountStatus(ps, OnHold) + CountStatus(ps, NotStarted),
         activeProjects     |-> active,
         completedProjects  |-> CountStatus(ps, Completed),
         onHoldProjects     |-> CountStatus(ps, OnHold),
         notStartedProjects |-> CountStatus(ps, NotStarted),
         averageProgress    |-> IF Len(ps) > 0
                                THEN Quotient(totalProgress(ps), Len(ps))
                                ELSE Quotient(0, 1),
         totalBudget        |-> totalBudget(ps)]

\* fault: the average is taken over the projects that have a progress
summary_averageOverPresent(ps) ==
    LET present == Len(SelectSeq(ps, LAMBDA p : IsSome(p.Progress)))
    IN  [totalProjects      |-> Len(ps),
         activeProjects     |-> CountStatus(ps, InProgress),
         completedProjects  |-> CountStatus(ps, Completed),
         onHoldProjects     |-> CountStatus(ps, OnHold),
         notStartedProjects |-> CountStatus(ps, NotStarted),
         averageProgress    |-> IF present > 0
                                THEN Quotient(totalProgress(ps), present)
                                ELSE Quotient(0, 1),
         totalBudget        |-> totalBudget(ps)]

\* the object `summary` that updateSummary builds from the collection
summary(ps) ==
    LET totalProjects == Len(ps)
    IN  [totalProjects      |-> totalProjects,
         activeProjects     |-> CountStatus(ps, InProgress),
         completedProjects  |-> CountStatus(ps, Completed),
         onHoldProjects     |-> CountStatus(ps, OnHold),
         notStartedProjects |-> CountStatus(ps, NotStarted),
         averageProgress    |-> IF totalProjects > 0
                                THEN Quotient(totalProgress(ps), totalProjects)
                                ELSE Quotient(0, 1),
         totalBudget        |-> totalBudget(ps)]

updateSummary ==
    /\ projectSummary' = Some(summary(projects))
    /\ call' = [op |-> "updateSummary"]
    /\ result' = None
    /\ UNCHANGED <<projects, selectedProject, uiVars, viewVars, panelVars, hookVars>>

\* r5 and r6 have a status that the summary does not break out; r7 is on hold
r5 == Project(5, <<"c">>, Cancelled, None, None, None, Some(25), Some(5), None, None)
r6 == Project(6, <<"d">>, UnderReview, None, None, None, None, Some(7), None, None)
r7 == Project(7, <<"e">>, OnHold, None, None, None, Some(10), None, None, None)

SummaryPool == {r1, r2, r3, r5, r6, r7}

SummaryAddProject ==
    \E p \in SummaryPool : Len(projects) < MaxSummaryLen /\ addProject(p)
SummaryRemoveProject == \E id \in {p.Id : p \in SummaryPool} : removeProject(id)
UpdateSummary == updateSummary

NextSummary ==
    \/ SummaryAddProject
    \/ SummaryRemoveProject
    \/ UpdateSummary

SpecSummary == Init /\ [][NextSummary]_vars

-----------------------------------------------------------------------------
(* Status transitions (interfaces/Status.ts) *)

\* fault: a completed project cannot be re-opened
getNextStatusOptions_noReopen(currentStatus) ==
    CASE currentStatus = NotStarted  -> <<InProgress, OnHold, Cancelled>>
      [] currentStatus = InProgress  -> <<Completed, OnHold, UnderReview>>
      [] currentStatus = OnHold      -> <<InProgress, Cancelled>>
      [] currentStatus = UnderReview -> <<Approved, Rejected, InProgress>>
      [] currentStatus = Approved    -> <<InProgress>>
      [] currentStatus = Rejected    -> <<InProgress, Cancelled>>
      [] currentStatus = Cancelled   -> <<NotStarted>>
      [] OTHER                       -> <<>>

\* fault: a cancelled project is put on hold, not restarted
getNextStatusOptions_noRestart(currentStatus) ==
    CASE currentStatus = NotStarted  -> <<InProgress, OnHold, Cancelled>>
      [] currentStatus = InProgress  -> <<Completed, OnHold, UnderReview>>
      [] currentStatus = OnHold      -> <<InProgress, Cancelled>>
      [] currentStatus = UnderReview -> <<Approved, Rejected, InProgress>>
      [] currentStatus = Approved    -> <<InProgress>>
      [] currentStatus = Rejected    -> <<InProgress, Cancelled>>
      [] currentStatus = Completed   -> <<UnderReview>>
      [] currentStatus = Cancelled   -> <<OnHold>>
      [] OTHER                       -> <<>>

getNextStatusOptions(currentStatus) ==
    CASE currentStatus = NotStarted  -> <<InProgress, OnHold, Cancelled>>
      [] currentStatus = InProgress  -> <<Completed, OnHold, UnderReview>>
      [] currentStatus = OnHold      -> <<InProgress, Cancelled>>
      [] currentStatus = UnderReview -> <<Approved, Rejected, InProgress>>
      [] currentStatus = Approved    -> <<InProgress>>
      [] currentStatus = Rejected    -> <<InProgress, Cancelled>>
      [] currentStatus = Completed   -> <<UnderReview>>
      [] currentStatus = Cancelled   -> <<NotStarted>>
      [] OTHER                       -> <<>>

callGetNextStatusOptions(currentStatus) ==
    /\ call' = [op |-> "getNextStatusOptions", currentStatus |-> currentStatus]
    /\ result' = getNextStatusOptions(currentStatus)
    /\ UNCHANGED <<dataVars, uiVars, viewVars, panelVars, hookVars>>

\* the numbers a status is drawn from: the enumeration and a number on
\* either side of it
StatusCodes == -1 .. 8

\* the options of any number
GetNextStatusOptions == \E s \in StatusCodes : callGetNextStatusOptions(s)

\* the options of a stored project's status
GetNextStatusOptionsOfProject ==
    \E i \in 1..Len(projects) : callGetNextStatusOptions(projects[i].Status)

\* one of the options just returned is given to stored projects
SetNextStatus ==
    /\ call.op = "getNextStatusOptions"
    /\ \E ids \in IdSets, i \in 1..Len(result), now \in Clock :
           bulkUpdateStatus(ids, result[i], now)

NextStatus ==
    \/ GetNextStatusOptions
    \/ GetNextStatusOptionsOfProject
    \/ SetNextStatus

SpecStatus == InitBulk /\ [][NextStatus]_vars

-----------------------------------------------------------------------------
(* The store as one value, for a hook callback that calls several handlers  *)
(* one after the other: each operator is the function its handler gives to  *)
(* set(), restricted to the fields the hooks' callbacks change.             *)

State ==
    [projects |-> projects, selectedProject |-> selectedProject,
     projectSummary |-> projectSummary, isLoading |-> isLoading, error |-> error]

setProjectsOn(state, ps) == [state EXCEPT !.projects = ps, !.error = None]

addProjectOn(state, p) == [state EXCEPT !.projects = Append(state.projects, p)]

updateProjectOn(state, updatedProject) ==
    [state EXCEPT
        !.projects = [i \in 1..Len(state.projects) |->
                         IF state.projects[i].Id = updatedProject.Id
                         THEN updatedProject ELSE state.projects[i]],
        !.selectedProject =
            IF /\ IsSome(state.selectedProject)
               /\ ValueOf(state.selectedProject).Id = updatedProject.Id
            THEN Some(updatedProject) ELSE state.selectedProject]

removeProjectOn(state, projectId) ==
    [state EXCEPT
        !.projects = SelectSeq(state.projects, LAMBDA p : p.Id # projectId),
        !.selectedProject =
            IF /\ IsSome(state.selectedProject)
               /\ ValueOf(state.selectedProject).Id = projectId
            THEN None ELSE state.selectedProject]

setLoadingOn(state, loading) == [state EXCEPT !.isLoading = loading]

setErrorOn(state, e) == [state EXCEPT !.error = e, !.isLoading = FALSE]

updateSummaryOn(state) == [state EXCEPT !.projectSummary = Some(summary(state.projects))]

\* the store becomes state
Becomes(state) ==
    /\ projects' = state.projects
    /\ selectedProject' = state.selectedProject
    /\ projectSummary' = state.projectSummary
    /\ isLoading' = state.isLoading
    /\ error' = state.error

-----------------------------------------------------------------------------
(* useProjectsQuery (hooks/useProjectData.ts).  A call of fetchProjects in  *)
(* flight holds the component whose effect made it and the isCancelled of   *)
(* that effect; getProjects settles with the projects read or with what was *)
(* thrown.                                                                  *)

MaxFetches == 2

\* the cleanup of component h's effect
cleanup(fs, h) ==
    [i \in 1..Len(fs) |-> IF fs[i].hook = h THEN [fs[i] EXCEPT !.isCancelled = TRUE]
                                            ELSE fs[i]]

RemoveAt(s, i) == SubSeq(s, 1, i - 1) \o SubSeq(s, i + 1, Len(s))

\* the effect of component h, whose `state` is qs: fetchProjects up to its await
effect(h, qs, fs) ==
    /\ queryState' = [queryState EXCEPT ![h] =
           Some([qs EXCEPT !.isLoading = TRUE, !.error = None, !.isError = FALSE])]
    /\ Becomes(setLoadingOn(State, TRUE))
    /\ fetches' = Append(fs, [fn |-> "fetchProjects", hook |-> h, isCancelled |-> FALSE])

\* a component that calls useProjectsQuery is mounted
mount(h) ==
    /\ queryState[h] = None
    /\ Len(fetches) < MaxFetches
    /\ effect(h, initialQueryState, fetches)
    /\ call' = [op |-> "mount", hook |-> h]
    /\ result' = None
    /\ UNCHANGED <<viewVars, panelVars, mutationVars, cacheVars,
                   serviceVars, retryVars>>

\* a component is rendered with other filters: cleanup, then the effect
changeFilters(h) ==
    /\ queryState[h] # None
    /\ Len(fetches) < MaxFetches
    /\ effect(h, ValueOf(queryState[h]), cleanup(fetches, h))
    /\ call' = [op |-> "changeFilters", hook |-> h]
    /\ result' = None
    /\ UNCHANGED <<viewVars, panelVars, mutationVars, cacheVars,
                   serviceVars, retryVars>>

\* a component that calls either hook is unmounted: cleanup, and its `state`
\* is gone
unmount(h) ==
    /\ queryState[h] # None
    /\ queryState' = [queryState EXCEPT ![h] = None]
    /\ fetches' = cleanup(fetches, h)
    /\ call' = [op |-> "unmount", hook |-> h]
    /\ result' = None
    /\ UNCHANGED <<dataVars, uiVars, viewVars, panelVars, mutationVars, cacheVars,
                   serviceVars, retryVars>>

\* fault: the projects read are dropped when a fetch started later is in flight
fetchProjects_resolved_latestOnly(i, ps) ==
    LET f == fetches[i]
        apply == ~f.isCancelled /\ i = Len(fetches)
    IN  /\ fetches' = RemoveAt(fetches, i)
        /\ IF apply
           THEN /\ queryState' = [queryState EXCEPT ![f.hook] =
                       Some([data |-> Some(ps), isLoading |-> FALSE, error |-> None,
                             isError |-> FALSE, isSuccess |-> TRUE])]
                /\ Becomes(setLoadingOn(setProjectsOn(State, ps), FALSE))
           ELSE UNCHANGED <<queryState, dataVars, uiVars,
                   serviceVars, retryVars>>
        /\ call' = [op |-> "fetchProjects", settled |-> "resolved", index |-> i,
                    hook |-> f.hook, isCancelled |-> f.isCancelled, projects |-> ps]
        /\ result' = None
        /\ UNCHANGED <<viewVars, panelVars, mutationVars, cacheVars,
                   serviceVars, retryVars>>

\* fetchProjects after its await, getProjects having returned ps
fetchProjects_resolved(i, ps) ==
    LET f == fetches[i]
    IN  /\ fetches' = RemoveAt(fetches, i)
        /\ IF ~f.isCancelled
           THEN /\ queryState' = [queryState EXCEPT ![f.hook] =
                       Some([data |-> Some(ps), isLoading |-> FALSE, error |-> None,
                             isError |-> FALSE, isSuccess |-> TRUE])]
                /\ Becomes(setLoadingOn(setProjectsOn(State, ps), FALSE))
           ELSE UNCHANGED <<queryState, dataVars, uiVars,
                   serviceVars, retryVars>>
        /\ call' = [op |-> "fetchProjects", settled |-> "resolved", index |-> i,
                    hook |-> f.hook, isCancelled |-> f.isCancelled, projects |-> ps]
        /\ result' = None
        /\ UNCHANGED <<viewVars, panelVars, mutationVars, cacheVars,
                   serviceVars, retryVars>>

\* error instanceof Error ? error.message : fallback
messageOf(thrown, fallback) == IF IsSome(thrown) THEN ValueOf(thrown) ELSE fallback

\* fault: the cancelled fetch reports its failure to the store
fetchProjects_rejected_unguarded(i, thrown) ==
    LET f == fetches[i]
        errorMessage == messageOf(thrown, "Failed to fetch projects")
    IN  /\ fetches' = RemoveAt(fetches, i)
        /\ IF ~f.isCancelled
           THEN queryState' = [queryState EXCEPT ![f.hook] =
                       Some([data |-> None, isLoading |-> FALSE,
                             error |-> Some(errorMessage),
                             isError |-> TRUE, isSuccess |-> FALSE])]
           ELSE UNCHANGED queryState
        /\ Becomes(setErrorOn(State, Some(errorMessage)))
        /\ call' = [op |-> "fetchProjects", settled |-> "rejected", index |-> i,
                    hook |-> f.hook, isCancelled |-> f.isCancelled, thrown |-> thrown]
        /\ result' = None
        /\ UNCHANGED <<viewVars, panelVars, mutationVars, cacheVars,
                   serviceVars, retryVars>>

\* fetchProjects in its catch, getProjects having thrown
fetchProjects_rejected(i, thrown) ==
    LET f == fetches[i]
        errorMessage == messageOf(thrown, "Failed to fetch projects")
    IN  /\ fetches' = RemoveAt(fetches, i)
        /\ IF ~f.isCancelled
           THEN /\ queryState' = [queryState EXCEPT ![f.hook] =
                       Some([data |-> None, isLoading |-> FALSE,
                             error |-> Some(errorMessage),
                             isError |-> TRUE, isSuccess |-> FALSE])]
                /\ Becomes(setErrorOn(State, Some(errorMessage)))
           ELSE UNCHANGED <<queryState, dataVars, uiVars,
                   serviceVars, retryVars>>
        /\ call' = [op |-> "fetchProjects", settled |-> "rejected", index |-> i,
                    hook |-> f.hook, isCancelled |-> f.isCancelled, thrown |-> thrown]
        /\ result' = None
        /\ UNCHANGED <<viewVars, panelVars, mutationVars, cacheVars,
                   serviceVars, retryVars>>

\* what getProjects returns, and what it throws: an Error with a message or
\* a value that is no Error
FetchedProjects == {<<>>, <<r1, r2>>, <<r2, r3>>}
Thrown == {Some("Network error"), None}

Mount == \E h \in HookIds : mount(h)
ChangeFilters == \E h \in HookIds : changeFilters(h)
Unmount == \E h \in HookIds : unmount(h)
FetchProjectsResolved ==
    \E i \in 1..Len(fetches), ps \in FetchedProjects :
        fetches[i].fn = "fetchProjects" /\ fetchProjects_resolved(i, ps)
FetchProjectsRejected ==
    \E i \in 1..Len(fetches), thrown \in Thrown :
        fetches[i].fn = "fetchProjects" /\ fetchProjects_rejected(i, thrown)

\* useProjectQuery: the effect of component h, whose `state` is qs, with
\* projectId: fetchProject up to its await, or no fetch when !projectId
projectEffect(h, qs, fs, projectId) ==
    IF OrZero(projectId) = 0
    THEN /\ queryState' = [queryState EXCEPT ![h] =
                Some([data |-> None, isLoading |-> FALSE, error |-> None,
                      isError |-> FALSE, isSuccess |-> TRUE])]
         /\ fetches' = fs
    ELSE /\ queryState' = [queryState EXCEPT ![h] =
                Some([qs EXCEPT !.isLoading = TRUE, !.error = None, !.isError = FALSE])]
         /\ fetches' = Append(fs, [fn |-> "fetchProject", hook |-> h,
                                   isCancelled |-> FALSE])

mountProject(h, projectId) ==
    /\ queryState[h] = None
    /\ Len(fetches) < MaxFetches
    /\ projectEffect(h, initialQueryState, fetches, projectId)
    /\ call' = [op |-> "mountProject", hook |-> h, projectId |-> projectId]
    /\ result' = None
    /\ UNCHANGED <<dataVars, uiVars, viewVars, panelVars, mutationVars, cacheVars,
                   serviceVars, retryVars>>

\* the component is rendered with another projectId: cleanup, then the effect
changeProjectId(h, projectId) ==
    /\ queryState[h] # None
    /\ Len(fetches) < MaxFetches
    /\ projectEffect(h, ValueOf(queryState[h]), cleanup(fetches, h), projectId)
    /\ call' = [op |-> "changeProjectId", hook |-> h, projectId |-> projectId]
    /\ result' = None
    /\ UNCHANGED <<dataVars, uiVars, viewVars, panelVars, mutationVars, cacheVars,
                   serviceVars, retryVars>>

\* fetchProject after its await, getProject having returned project
fetchProject_resolved(i, project) ==
    LET f == fetches[i]
    IN  /\ fetches' = RemoveAt(fetches, i)
        /\ queryState' =
               IF ~f.isCancelled
               THEN [queryState EXCEPT ![f.hook] =
                        Some([data |-> Some(project), isLoading |-> FALSE,
                              error |-> None, isError |-> FALSE, isSuccess |-> TRUE])]
               ELSE queryState
        /\ call' = [op |-> "fetchProject", settled |-> "resolved", index |-> i,
                    hook |-> f.hook, isCancelled |-> f.isCancelled, project |-> project]
        /\ result' = None
        /\ UNCHANGED <<dataVars, uiVars, viewVars, panelVars, mutationVars, cacheVars,
                   serviceVars, retryVars>>

\* fetchProject in its catch, getProject having thrown
fetchProject_rejected(i, thrown) ==
    LET f == fetches[i]
        errorMessage == messageOf(thrown, "Failed to fetch project")
    IN  /\ fetches' = RemoveAt(fetches, i)
        /\ queryState' =
               IF ~f.isCancelled
               THEN [queryState EXCEPT ![f.hook] =
                        Some([data |-> None, isLoading |-> FALSE,
                              error |-> Some(errorMessage),
                              isError |-> TRUE, isSuccess |-> FALSE])]
               ELSE queryState
        /\ call' = [op |-> "fetchProject", settled |-> "rejected", index |-> i,
                    hook |-> f.hook, isCancelled |-> f.isCancelled, thrown |-> thrown]
        /\ result' = None
        /\ UNCHANGED <<dataVars, uiVars, viewVars, panelVars, mutationVars, cacheVars,
                   serviceVars, retryVars>>

\* the projectId of the component: none, 0 or the Id of a project
ProjectIds == {None, Some(0), Some(1)}

MountProject == \E h \in ProjectHookIds, id \in ProjectIds : mountProject(h, id)
ChangeProjectId == \E h \in ProjectHookIds, id \in ProjectIds : changeProjectId(h, id)
FetchProjectResolved ==
    \E i \in 1..Len(fetches), p \in {r1} :
        fetches[i].fn = "fetchProject" /\ fetchProject_resolved(i, p)
FetchProjectRejected ==
    \E i \in 1..Len(fetches), thrown \in Thrown :
        fetches[i].fn = "fetchProject" /\ fetchProject_rejected(i, thrown)

\* one component that calls useProjectsQuery and one that calls useProjectQuery
MountProjects == mount(1)
ChangeProjectsFilters == changeFilters(1)
UnmountEither == \E h \in {1} \cup ProjectHookIds : unmount(h)

NextTeardown ==
    \/ MountProjects
    \/ ChangeProjectsFilters
    \/ UnmountEither
    \/ FetchProjectsResolved
    \/ FetchProjectsRejected
    \/ MountProject
    \/ ChangeProjectId
    \/ FetchProjectResolved
    \/ FetchProjectRejected

SpecTeardown == Init /\ [][NextTeardown]_vars

NextQuery ==
    \/ Mount
    \/ ChangeFilters
    \/ Unmount
    \/ FetchProjectsResolved
    \/ FetchProjectsRejected

SpecQuery == Init /\ [][NextQuery]_vars

-----------------------------------------------------------------------------
(* useCreateProjectMutation, useUpdateProjectMutation and                   *)
(* useDeleteProjectMutation (hooks/useProjectData.ts).  A call of mutate in *)
(* flight holds its hook and its argument; the service call settles with    *)
(* what it returns or with what was thrown.  The promise mutate returns     *)
(* settles with it: that is the result of the call.                         *)

MaxMutations == 2

\* the fallback message of each hook
fallbackMessage(kind) ==
    CASE kind = "create" -> "Failed to create project"
      [] kind = "update" -> "Failed to update project"
      [] kind = "delete" -> "Failed to delete project"

\* mutate up to its await
mutate(kind, variables) ==
    /\ Len(mutations) < MaxMutations
    /\ mutationState' = [mutationState EXCEPT ![kind] =
           [@ EXCEPT !.isLoading = TRUE, !.error = None,
                     !.isError = FALSE, !.isSuccess = FALSE]]
    /\ mutations' = Append(mutations, [kind |-> kind, variables |-> variables])
    /\ call' = [op |-> "mutate", settled |-> "pending", kind |-> kind,
                variables |-> variables]
    /\ result' = None
    /\ UNCHANGED <<dataVars, uiVars, viewVars, panelVars, queryVars, cacheVars,
                   serviceVars, retryVars>>

\* mutate after its await, the service call having returned
mutate_resolved(i, returned) ==
    LET m == mutations[i]
    IN  /\ mutations' = RemoveAt(mutations, i)
        /\ mutationState' = [mutationState EXCEPT ![m.kind] =
               [@ EXCEPT !.data = IF m.kind = "delete" THEN None ELSE Some(returned),
                         !.isLoading = FALSE, !.error = None,
                         !.isError = FALSE, !.isSuccess = TRUE]]
        /\ Becomes(CASE m.kind = "create" -> addProjectOn(State, returned)
                     [] m.kind = "update" -> updateProjectOn(State, returned)
                     [] m.kind = "delete" -> removeProjectOn(State, m.variables))
        /\ call' = [op |-> "mutate", settled |-> "resolved", kind |-> m.kind,
                    variables |-> m.variables]
        /\ result' = [settled |-> "resolved"]
        /\ UNCHANGED <<viewVars, panelVars, queryVars, cacheVars,
                   serviceVars, retryVars>>

\* fault: the failure is recorded and the promise resolves
mutate_rejected_swallowed(i, thrown) ==
    LET m == mutations[i]
        errorMessage == messageOf(thrown, fallbackMessage(m.kind))
    IN  /\ mutations' = RemoveAt(mutations, i)
        /\ mutationState' = [mutationState EXCEPT ![m.kind] =
               [@ EXCEPT !.isLoading = FALSE, !.error = Some(errorMessage),
                         !.isError = TRUE, !.isSuccess = FALSE]]
        /\ call' = [op |-> "mutate", settled |-> "rejected", kind |-> m.kind,
                    variables |-> m.variables, thrown |-> thrown]
        /\ result' = [settled |-> "resolved"]
        /\ UNCHANGED <<dataVars, uiVars, viewVars, panelVars, queryVars, cacheVars,
                   serviceVars, retryVars>>

\* mutate in its catch, the service call having thrown
mutate_rejected(i, thrown) ==
    LET m == mutations[i]
        errorMessage == messageOf(thrown, fallbackMessage(m.kind))
    IN  /\ mutations' = RemoveAt(mutations, i)
        /\ mutationState' = [mutationState EXCEPT ![m.kind] =
               [@ EXCEPT !.isLoading = FALSE, !.error = Some(errorMessage),
                         !.isError = TRUE, !.isSuccess = FALSE]]
        /\ call' = [op |-> "mutate", settled |-> "rejected", kind |-> m.kind,
                    variables |-> m.variables, thrown |-> thrown]
        /\ result' = [settled |-> "rejected", thrown |-> thrown]
        /\ UNCHANGED <<dataVars, uiVars, viewVars, panelVars, queryVars, cacheVars,
                   serviceVars, retryVars>>

\* reset of a mutation hook
reset(kind) ==
    /\ mutationState' = [mutationState EXCEPT ![kind] =
           [@ EXCEPT !.data = None, !.error = None,
                     !.isError = FALSE, !.isSuccess = FALSE]]
    /\ call' = [op |-> "reset", kind |-> kind]
    /\ result' = None
    /\ mutations' = mutations
    /\ UNCHANGED <<dataVars, uiVars, viewVars, panelVars, queryVars, cacheVars,
                   serviceVars, retryVars>>

\* the project the service returns for a created and for an updated project
Returned(kind) == IF kind = "create" THEN {r3} ELSE {r4}

\* the number of calls of the create hook's mutate in flight
Creating == Len(SelectSeq(mutations, LAMBDA m : m.kind = "create"))

\* the argument of mutate: the project data (left out), or the project's id
MutateCreate == Len(projects) + Creating < MaxLen /\ mutate("create", None)
MutateUpdate == mutate("update", None)
MutateDelete == \E id \in {1, 3} : mutate("delete", id)
MutateResolved ==
    \E i \in 1..Len(mutations) :
        \E p \in Returned(mutations[i].kind) : mutate_resolved(i, p)
MutateRejected ==
    \E i \in 1..Len(mutations), thrown \in Thrown : mutate_rejected(i, thrown)
Reset == \E kind \in MutationKinds : reset(kind)
SelectStored ==
    \E i \in 1..Len(projects) : setSelectedProject(Some(projects[i]))

InitMutation == Loaded(<<r1, r2>>)

NextMutation ==
    \/ MutateCreate
    \/ MutateUpdate
    \/ MutateDelete
    \/ MutateResolved
    \/ MutateRejected
    \/ Reset
    \/ SelectStored

SpecMutation == InitMutation /\ [][NextMutation]_vars

-----------------------------------------------------------------------------
(* The QueryClient as the hooks of useProjectQueries.ts use it.  A cached   *)
(* query holds its data, the time the data were written and whether it has  *)
(* been invalidated; a query without data is None.  The time is counted in  *)
(* minutes.                                                                 *)

MaxTime == 2
MaxPending == 1

\* staleTime of useProjects, useProject and useProjectSummary, in minutes
ListStaleTime == 5
DetailStaleTime == 2
SummaryStaleTime == 5

staleTime(key) ==
    CASE key[2] = "list"    -> ListStaleTime
      [] key[2] = "detail"  -> DetailStaleTime
      [] key[2] = "summary" -> SummaryStaleTime

Entry(data, at) == [data |-> data, dataUpdatedAt |-> at, isInvalidated |-> FALSE]

\* fault: a query filter matches the one key that is equal to queryKey
matches_exact(queryKey, key) == Len(queryKey) = Len(key) /\ queryKey = key

\* a query filter { queryKey } matches the keys that start with queryKey
matches(queryKey, key) ==
    /\ Len(queryKey) <= Len(key)
    /\ \A i \in 1..Len(queryKey) : key[i] = queryKey[i]

\* a query is stale when it has no data, is invalidated or is older than its
\* staleTime
isStale(c, key, t) ==
    IF c[key] = None
    THEN TRUE
    ELSE \/ ValueOf(c[key]).isInvalidated
         \/ t >= ValueOf(c[key]).dataUpdatedAt + staleTime(key)

\* queryClient.invalidateQueries({ queryKey }): the cache afterwards
invalidateQueries(c, queryKey) ==
    [k \in QueryKeys |->
        IF matches(queryKey, k) /\ c[k] # None
        THEN Some([ValueOf(c[k]) EXCEPT !.isInvalidated = TRUE])
        ELSE c[k]]

\* the observed queries that invalidateQueries({ queryKey }) fetches again
refetched(queryKey) == {k \in observers : matches(queryKey, k)}

\* queryClient.setQueryData(key, data) at time t
setQueryData(c, key, data, t) == [c EXCEPT ![key] = Some(Entry(data, t))]

\* queryClient.removeQueries({ queryKey })
removeQueries(c, queryKey) ==
    [k \in QueryKeys |-> IF matches(queryKey, k) THEN None ELSE c[k]]

\* errorMappings, in the order Object.entries gives them
errorMappings ==
    << <<"Network request failed",
         "Unable to connect to the server. Please check your internet connection.">>,
       <<"Unauthorized", "You do not have permission to perform this action.">>,
       <<"Forbidden", "Access denied. Please contact your administrator.">>,
       <<"Not Found", "The requested resource was not found.">>,
       <<"Internal Server Error", "A server error occurred. Please try again later.">> >>

\* getUserFriendlyErrorMessage on the message getErrorMessage extracts: the
\* friendly text of the first mapping whose technical text the message
\* includes, else the message, or the fallback for a message of over 100
\* characters
getUserFriendlyErrorMessage(message) ==
    LET hits == {i \in 1..Len(errorMappings) : includes(message, errorMappings[i][1])}
    IN  IF hits # {}
        THEN errorMappings[CHOOSE i \in hits : \A j \in hits : i <= j][2]
        ELSE IF Len(message) > 100
             THEN "Something went wrong. Please try again."
             ELSE message

\* a component that calls useProjects, useProject or useProjectSummary is
\* mounted: the query is observed, and fetched when it is stale
useQuery(key) ==
    /\ key \notin observers
    /\ observers' = observers \cup {key}
    /\ fetching' = IF isStale(cache, key, time) THEN fetching \cup {key} ELSE fetching
    /\ call' = [op |-> "useQuery", key |-> key]
    /\ result' = [data |-> IF cache[key] = None THEN None
                           ELSE Some(ValueOf(cache[key]).data),
                  isStale |-> isStale(cache, key, time)]
    /\ UNCHANGED <<dataVars, uiVars, viewVars, panelVars, queryVars, mutationVars,
                   cache, time, pending,
                   serviceVars, retryVars>>

\* the component is unmounted
unobserve(key) ==
    /\ key \in observers
    /\ observers' = observers \ {key}
    /\ call' = [op |-> "unobserve", key |-> key]
    /\ result' = None
    /\ UNCHANGED <<dataVars, uiVars, viewVars, panelVars, queryVars, mutationVars,
                   cache, time, fetching, pending,
                   serviceVars, retryVars>>

\* the callbacks of the observer of key when its queryFn has returned data:
\* onSuccess, then onSettled
onSuccessOf(key, state, data) ==
    CASE key[2] = "list"    ->
             setLoadingOn(
                 updateSummaryOn(setErrorOn(setProjectsOn(state, data), None)),
                 FALSE)
      [] key[2] = "summary" -> updateSummaryOn(state)
      [] OTHER              -> state

\* the callbacks of the observer of key when its queryFn has failed for
\* good: onError, then onSettled
onErrorOf(key, state, message) ==
    CASE key[2] = "list" ->
             setLoadingOn(
                 setErrorOn(state, Some(getUserFriendlyErrorMessage(message))),
                 FALSE)
      [] OTHER           -> state

\* the queryFn of key has returned data: the data are cached, and the
\* observer, if there is one, is called back
queryFn_resolved(key, data) ==
    /\ key \in fetching
    /\ fetching' = fetching \ {key}
    /\ cache' = setQueryData(cache, key, data, time)
    /\ Becomes(IF key \in observers THEN onSuccessOf(key, State, data) ELSE State)
    /\ call' = [op |-> "queryFn", settled |-> "resolved", key |-> key]
    /\ result' = None
    /\ UNCHANGED <<viewVars, panelVars, queryVars, mutationVars, time, observers,
                   pending,
                   serviceVars, retryVars>>

\* the queryFn of key has failed and is not tried again: the cached data
\* stay, and the observer, if there is one, is called back
queryFn_rejected(key, message) ==
    /\ key \in fetching
    /\ fetching' = fetching \ {key}
    /\ Becomes(IF key \in observers THEN onErrorOf(key, State, message) ELSE State)
    /\ call' = [op |-> "queryFn", settled |-> "rejected", key |-> key]
    /\ result' = None
    /\ UNCHANGED <<viewVars, panelVars, queryVars, mutationVars, cache, time,
                   observers, pending,
                   serviceVars, retryVars>>

\* useInvalidateProjects: each of its four functions is one call of
\* invalidateQueries, which marks the matching queries and fetches the
\* observed ones again
invalidate(name, queryKey) ==
    /\ cache' = invalidateQueries(cache, queryKey)
    /\ fetching' = fetching \cup refetched(queryKey)
    /\ call' = [op |-> name, queryKey |-> queryKey]
    /\ result' = None
    /\ UNCHANGED <<dataVars, uiVars, viewVars, panelVars, queryVars, mutationVars,
                   time, observers, pending,
                   serviceVars, retryVars>>

invalidateAll == invalidate("invalidateAll", projectKeys_all)
invalidateLists == invalidate("invalidateLists", projectKeys_lists)
invalidateProject(id) == invalidate("invalidateProject", projectKeys_detail(id))
invalidateSummary == invalidate("invalidateSummary", projectKeys_summary)

\* mutate of useCreateProject, useUpdateProject or useDeleteProject: the
\* mutationFn is called
useMutation_mutate(kind, variables) ==
    /\ Len(pending) < MaxPending
    /\ pending' = Append(pending, [kind |-> kind, variables |-> variables])
    /\ call' = [op |-> "mutationFn", settled |-> "pending", kind |-> kind,
                variables |-> variables]
    /\ result' = None
    /\ UNCHANGED <<dataVars, uiVars, viewVars, panelVars, queryVars, mutationVars,
                   cache, time, observers, fetching,
                   serviceVars, retryVars>>

\* the cache after the two invalidateQueries calls of every onSuccess
invalidateListsAndSummary(c) ==
    invalidateQueries(invalidateQueries(c, projectKeys_lists), projectKeys_summary)

\* fault: onSuccess of useUpdateProject without its setQueryData
cacheOnSuccess_noWriteThrough(kind, variables, returned, c, t) ==
    CASE kind = "create" -> invalidateListsAndSummary(c)
      [] kind = "update" -> invalidateListsAndSummary(c)
      [] kind = "delete" ->
             invalidateListsAndSummary(removeQueries(c, projectKeys_detail(variables)))

\* what the onSuccess of each mutation hook does to the cache
cacheOnSuccess(kind, variables, returned, c, t) ==
    CASE kind = "create" -> invalidateListsAndSummary(c)
      [] kind = "update" ->
             invalidateListsAndSummary(
                 setQueryData(c, projectKeys_detail(returned.Id), returned, t))
      [] kind = "delete" ->
             invalidateListsAndSummary(removeQueries(c, projectKeys_detail(variables)))

\* what the onSuccess of each mutation hook does to the store
storeOnSuccess(kind, variables, returned, state) ==
    setErrorOn(CASE kind = "create" -> addProjectOn(state, returned)
                 [] kind = "update" -> updateProjectOn(state, returned)
                 [] kind = "delete" -> removeProjectOn(state, variables),
               None)

\* the mutationFn has returned: onSuccess
mutationFn_resolved(i, returned) ==
    LET m == pending[i]
    IN  /\ pending' = RemoveAt(pending, i)
        /\ Becomes(storeOnSuccess(m.kind, m.variables, returned, State))
        /\ cache' = cacheOnSuccess(m.kind, m.variables, returned, cache, time)
        /\ fetching' =
               (IF m.kind = "delete"
                THEN {k \in fetching : ~matches(projectKeys_detail(m.variables), k)}
                ELSE fetching)
                   \cup refetched(projectKeys_lists) \cup refetched(projectKeys_summary)
        /\ call' = [op |-> "mutationFn", settled |-> "resolved", kind |-> m.kind,
                    variables |-> m.variables, returned |-> returned]
        /\ result' = None
        /\ UNCHANGED <<viewVars, panelVars, queryVars, mutationVars, time, observers,
                   serviceVars, retryVars>>

\* the mutationFn has failed and is not tried again: onError
mutationFn_rejected(i, message) ==
    LET m == pending[i]
    IN  /\ pending' = RemoveAt(pending, i)
        /\ Becomes(setErrorOn(State, Some(getUserFriendlyErrorMessage(message))))
        /\ call' = [op |-> "mutationFn", settled |-> "rejected", kind |-> m.kind,
                    variables |-> m.variables]
        /\ result' = None
        /\ UNCHANGED <<viewVars, panelVars, queryVars, mutationVars, cache, time,
                       observers, fetching,
                   serviceVars, retryVars>>

\* a minute passes
tick ==
    /\ time < MaxTime
    /\ time' = time + 1
    /\ call' = [op |-> "tick"]
    /\ result' = None
    /\ UNCHANGED <<dataVars, uiVars, viewVars, panelVars, queryVars, mutationVars,
                   cache, observers, fetching, pending,
                   serviceVars, retryVars>>

\* what the queryFn of a key returns: getProjects a list, getProject the
\* project of the id, getProjectSummary a summary
Fetched(key) ==
    CASE key[2] = "list"    -> {<<r1, r2>>}
      [] key[2] = "detail"  -> {p \in {r1, r3} : p.Id = key[3]}
      [] key[2] = "summary" -> {summary(<<r1, r2>>)}

Messages == {"Network request failed"}

\* the mutationFn calls in flight that create a project
CreatesPending == Len(SelectSeq(pending, LAMBDA m : m.kind = "create"))

\* the components mounted together, and whether a fetch is in flight
MaxObservers == 1
Idle == fetching = {}

\* the queries that are read: both lists, one project and the summary
ReadKeys == QueryKeys \ {projectKeys_detail(3)}

UseQuery ==
    \E key \in ReadKeys :
        Idle /\ Cardinality(observers) < MaxObservers /\ useQuery(key)
Unobserve == \E key \in ReadKeys : Idle /\ unobserve(key)
QueryFnResolved == \E key \in QueryKeys : \E data \in Fetched(key) : queryFn_resolved(key, data)
QueryFnRejected == \E key \in QueryKeys, message \in Messages : queryFn_rejected(key, message)
InvalidateAll == Idle /\ invalidateAll
InvalidateLists == Idle /\ invalidateLists
InvalidateProject == Idle /\ invalidateProject(1)
InvalidateSummary == Idle /\ invalidateSummary
Tick == Idle /\ tick
MutateCreateProject ==
    Len(projects) + CreatesPending < MaxLen /\ useMutation_mutate("create", None)
MutateUpdateProject == useMutation_mutate("update", None)
MutateDeleteProject == \E id \in DetailIds : useMutation_mutate("delete", id)
MutationFnResolved ==
    \E i \in 1..Len(pending) :
        \E p \in Returned(pending[i].kind) : mutationFn_resolved(i, p)
MutationFnRejected ==
    \E i \in 1..Len(pending), message \in Messages : mutationFn_rejected(i, message)

\* the cache read, invalidated and aged
NextStale ==
    \/ UseQuery
    \/ Unobserve
    \/ QueryFnResolved
    \/ QueryFnRejected
    \/ InvalidateAll
    \/ InvalidateLists
    \/ InvalidateProject
    \/ InvalidateSummary
    \/ Tick

SpecStale == Init /\ [][NextStale]_vars

-----------------------------------------------------------------------------
(* The mutation hooks of useProjectQueries.ts with the queries they         *)
(* invalidate.  What is in flight settles: a queryFn and a mutationFn end,  *)
(* with data or with a failure.                                             *)

NextCache ==
    \/ UseQuery
    \/ Unobserve
    \/ QueryFnResolved
    \/ QueryFnRejected
    \/ MutateCreateProject
    \/ MutateUpdateProject
    \/ MutateDeleteProject
    \/ MutationFnResolved
    \/ MutationFnRejected

SpecCache ==
    /\ Init
    /\ [][NextCache]_vars
    /\ WF_vars(QueryFnResolved \/ QueryFnRejected)
    /\ WF_vars(MutationFnResolved \/ MutationFnRejected)

-----------------------------------------------------------------------------
(* Panel handlers, and the store driven through them and the data handlers *)

\* fault: the panel opened for a project is not in edit mode
openPanel_noEditMode(project) ==
    /\ isPanelOpen' = TRUE
    /\ selectedProject' = project
    /\ isEditMode' = FALSE
    /\ call' = [op |-> "openPanel", project |-> project]
    /\ result' = None
    /\ UNCHANGED <<projects, projectSummary, uiVars, viewVars, isCreateModalOpen, hookVars>>

\* openPanel(project?): project is None when the argument is left out
openPanel(project) ==
    /\ isPanelOpen' = TRUE
    /\ selectedProject' = project
    /\ isEditMode' = IsSome(project)
    /\ call' = [op |-> "openPanel", project |-> project]
    /\ result' = None
    /\ UNCHANGED <<projects, projectSummary, uiVars, viewVars, isCreateModalOpen, hookVars>>

closePanel ==
    /\ isPanelOpen' = FALSE
    /\ selectedProject' = None
    /\ isEditMode' = FALSE
    /\ call' = [op |-> "closePanel"]
    /\ result' = None
    /\ UNCHANGED <<projects, projectSummary, uiVars, viewVars, isCreateModalOpen, hookVars>>

setEditMode(editMode) ==
    /\ isEditMode' = editMode
    /\ call' = [op |-> "setEditMode", editMode |-> editMode]
    /\ result' = None
    /\ UNCHANGED <<dataVars, uiVars, viewVars, isPanelOpen, isCreateModalOpen, hookVars>>

\* longest collection the panel is opened on
MaxPanelLen == 2

Selections == {None} \cup {Some(p) : p \in ProjectPool}

PanelSetProjects == \E ps \in SeqsUpTo(ProjectPool, MaxPanelLen) : setProjects(ps)
PanelAddProject == \E p \in ProjectPool : Len(projects) < MaxPanelLen /\ addProject(p)
OpenPanel == \E project \in Selections : openPanel(project)
ClosePanel == closePanel
SetEditMode == \E editMode \in BOOLEAN : setEditMode(editMode)

NextPanel ==
    \/ PanelSetProjects
    \/ PanelAddProject
    \/ UpdateProject
    \/ RemoveProject
    \/ SetSelectedProject
    \/ OpenPanel
    \/ ClosePanel
    \/ SetEditMode

SpecPanel == Init /\ [][NextPanel]_vars

-----------------------------------------------------------------------------
(* The selection: the store driven through the handlers that change the     *)
(* collection, and through setSelectedProject and openPanel called with a   *)
(* record of the collection                                                  *)

Stored == {Some(projects[i]) : i \in 1..Len(projects)}

SelectFromCollection == \E s \in Stored : setSelectedProject(s)
OpenPanelFromCollection == \E s \in Stored : openPanel(s)
SelectionAddProject ==
    \E p \in ProjectPool :
        /\ Len(projects) < MaxPanelLen
        /\ \A i \in 1..Len(projects) : projects[i].Id # p.Id
        /\ addProject(p)

SelectionIdSets == {{1}, {1, 2}}
SelectionBulkUpdateStatus ==
    \E ids \in SelectionIdSets, now \in Clock : bulkUpdateStatus(ids, OnHold, now)
SelectionBulkUpdatePriority ==
    \E ids \in SelectionIdSets, now \in Clock : bulkUpdatePriority(ids, Critical, now)

NextSelection ==
    \/ PanelSetProjects
    \/ SelectionAddProject
    \/ UpdateProject
    \/ RemoveProject
    \/ SelectionBulkUpdateStatus
    \/ SelectionBulkUpdatePriority
    \/ SelectFromCollection
    \/ OpenPanelFromCollection

SpecSelection == Init /\ [][NextSelection]_vars

-----------------------------------------------------------------------------
(* useQueryProjects (services/useQueryProjects.ts).  The hook keeps data,    *)
(* isLoading, isError and error; a call of fetchData in flight is waiting    *)
(* for getData, which settles with the items read or with what was thrown.   *)
(* The outer catch of fetchData is reached only if a state setter throws,    *)
(* which it does not.                                                        *)

\* the fetchData calls made on one mounted hook
MaxFetchData == 4

\* a project as getData and getMockData build it
Item(id, name, status) == [Id |-> id, Name |-> name, Status |-> status]

getMockData ==
    << Item(1, "Website Redesign", InProgress),
       Item(2, "Mobile App Development", Completed),
       Item(3, "Database Migration", NotStarted),
       Item(4, "Security Audit", OnHold),
       Item(5, "Performance Optimization", InProgress),
       Item(6, "User Training Program", Completed),
       Item(7, "API Integration", InProgress),
       Item(8, "Documentation Update", NotStarted) >>

\* getData on the items read: Title becomes Name, a missing Status becomes 0
getData(allItems) ==
    [i \in 1..Len(allItems) |->
        Item(allItems[i].Id, allItems[i].Title, OrZero(allItems[i].Status))]

\* the arguments of the four useState calls
initialServiceState ==
    [data |-> <<>>, isLoading |-> FALSE, isError |-> FALSE, error |-> None]

\* fetchData up to its await, on the hook state s
fetchData_started(s) ==
    [s EXCEPT !.isLoading = TRUE, !.isError = FALSE, !.error = None]

\* a call of fetchData: it is in flight under the next number
fetchData(name, s) ==
    /\ fetchDataCount < MaxFetchData
    /\ fetchDataCount' = fetchDataCount + 1
    /\ fetchDataCalls' = fetchDataCalls \cup {fetchDataCount + 1}
    /\ queryProjects' = Some(fetchData_started(s))
    /\ call' = [op |-> name, settled |-> "pending", id |-> fetchDataCount + 1]
    /\ result' = None
    /\ UNCHANGED <<dataVars, uiVars, viewVars, panelVars, queryVars, mutationVars,
                   cacheVars,
                   retryVars>>

\* the first render of a component that calls useQueryProjects, and its effect
useQueryProjects ==
    /\ queryProjects = None
    /\ fetchData("useQueryProjects", initialServiceState)

\* refetch of the mounted hook
refetch ==
    /\ queryProjects # None
    /\ fetchData("refetch", ValueOf(queryProjects))

\* fault: a failed read leaves the data as they were
fetchData_settled_keepsData(id, read) ==
    /\ id \in fetchDataCalls
    /\ fetchDataCalls' = fetchDataCalls \ {id}
    /\ queryProjects' =
           Some([ValueOf(queryProjects) EXCEPT
                    !.data = IF IsSome(read) THEN getData(ValueOf(read)) ELSE @,
                    !.isLoading = FALSE])
    /\ call' = [op |-> "fetchData", settled |-> "settled", id |-> id, read |-> read]
    /\ result' = None
    /\ UNCHANGED <<dataVars, uiVars, viewVars, panelVars, queryVars, mutationVars,
                   cacheVars, fetchDataCount,
                   retryVars>>

\* fetchData after its await: read is Some(items) when the SharePoint read
\* returned items and None when it threw
fetchData_settled(id, read) ==
    /\ id \in fetchDataCalls
    /\ fetchDataCalls' = fetchDataCalls \ {id}
    /\ queryProjects' =
           Some([ValueOf(queryProjects) EXCEPT
                    !.data = IF IsSome(read) THEN getData(ValueOf(read))
                             ELSE getMockData,
                    !.isLoading = FALSE])
    /\ call' = [op |-> "fetchData", settled |-> "settled", id |-> id, read |-> read]
    /\ result' = None
    /\ UNCHANGED <<dataVars, uiVars, viewVars, panelVars, queryVars, mutationVars,
                   cacheVars, fetchDataCount,
                   retryVars>>

\* what the SharePoint read ends with: no item, two items (one without a
\* Status), or a failure
SpItem(id, title, status) == [Id |-> id, Title |-> title, Status |-> status]
Reads ==
    {Some(<<>>),
     Some(<<SpItem(11, "Intranet", Some(Completed)), SpItem(12, "Archive", None)>>),
     None}

FetchCallIds == 1..MaxFetchData

UseQueryProjects == useQueryProjects
Refetch == refetch
FetchDataSettled(id) == \E read \in Reads : fetchData_settled(id, read)

NextService ==
    \/ UseQueryProjects
    \/ Refetch
    \/ \E id \in FetchCallIds : FetchDataSettled(id)

\* every call of getData ends: the read returns or throws
SpecService ==
    /\ Init /\ [][NextService]_vars
    /\ \A id \in FetchCallIds : WF_vars(FetchDataSettled(id))

-----------------------------------------------------------------------------
(* The retry option of useProjects.  The fetch of a list query calls its    *)
(* queryFn; when the queryFn fails, retry(failureCount, error) decides      *)
(* whether it is called again, failureCount being the number of failures    *)
(* before this one.                                                         *)

\* getProjects catches what the SharePoint read threw and throws an Error
\* with this message
getProjects_thrown(inner) == "Error fetching projects: " \o inner

\* fault: every failure but the third is retried
retry_always(failureCount, thrown) == failureCount < 2

\* retry of useProjects; thrown is the message of the error
retry(failureCount, thrown) ==
    LET errorMessage == getUserFriendlyErrorMessage(thrown)
    IN  IF includes(errorMessage, "permission") \/ includes(errorMessage, "access")
        THEN FALSE
        ELSE failureCount < 2

\* a component that calls useProjects is mounted: the list query is observed
\* and, being stale, fetched
useProjects(filtersArg) ==
    LET key == projectKeys_list(filtersArg)
    IN  /\ key \notin observers
        /\ isStale(cache, key, time)
        /\ observers' = observers \cup {key}
        /\ fetching' = fetching \cup {key}
        /\ failures' = 0
        /\ attempts' = 1
        /\ call' = [op |-> "useProjects", key |-> key]
        /\ result' = None
        /\ UNCHANGED <<dataVars, uiVars, viewVars, panelVars, queryVars, mutationVars,
                       cache, time, pending, serviceVars>>

\* the queryFn of a list query has failed with thrown: it is called again, or
\* the fetch fails for good
queryFn_failed(key, thrown) ==
    /\ key \in fetching
    /\ IF retry(failures, thrown)
       THEN /\ failures' = failures + 1
            /\ attempts' = attempts + 1
            /\ call' = [op |-> "retry", key |-> key, thrown |-> thrown,
                        failureCount |-> failures]
            /\ result' = TRUE
            /\ UNCHANGED <<dataVars, uiVars, viewVars, panelVars, queryVars,
                           mutationVars, cacheVars, serviceVars>>
       ELSE queryFn_rejected(key, thrown)

\* what the SharePoint read of the list fails with
InnerMessages == {"Network request failed", "Unauthorized", "Forbidden"}
ListKeys == {projectKeys_list(f) : f \in ListFilters}

UseProjects == \E f \in ListFilters : Idle /\ useProjects(f)
QueryFnFailed ==
    \E key \in ListKeys, inner \in InnerMessages :
        queryFn_failed(key, getProjects_thrown(inner))
QueryFnReturned == \E key \in ListKeys : \E data \in Fetched(key) : queryFn_resolved(key, data)
UnmountProjects == \E key \in ListKeys : Idle /\ unobserve(key)

NextRetry ==
    \/ UseProjects
    \/ QueryFnFailed
    \/ QueryFnReturned
    \/ UnmountProjects

SpecRetry == Init /\ [][NextRetry]_vars

-----------------------------------------------------------------------------
(* getProjectSummary (services/projectService.ts): the summary the service  *)
(* computes, in one loop, from the projects getProjects returns              *)

\* the variables of the loop before its first pass
summaryCounters ==
    [activeProjects |-> 0, completedProjects |-> 0, onHoldProjects |-> 0,
     notStartedProjects |-> 0, totalProgress |-> 0, totalBudget |-> 0]

\* fault: the InProgress case falls through into the Completed case
summaryPass_fallThrough(acc, project) ==
    LET counted ==
            CASE project.Status = InProgress ->
                     [acc EXCEPT !.activeProjects = @ + 1, !.completedProjects = @ + 1]
              [] project.Status = Completed  -> [acc EXCEPT !.completedProjects = @ + 1]
              [] project.Status = OnHold     -> [acc EXCEPT !.onHoldProjects = @ + 1]
              [] project.Status = NotStarted -> [acc EXCEPT !.notStartedProjects = @ + 1]
              [] OTHER                       -> acc
    IN  [counted EXCEPT !.totalProgress = @ + OrZero(project.Progress),
                        !.totalBudget = @ + OrZero(project.Budget)]

\* one pass of the loop: the switch, then the two sums
summaryPass(acc, project) ==
    LET counted ==
            CASE project.Status = InProgress -> [acc EXCEPT !.activeProjects = @ + 1]
              [] project.Status = Completed  -> [acc EXCEPT !.completedProjects = @ + 1]
              [] project.Status = OnHold     -> [acc EXCEPT !.onHoldProjects = @ + 1]
              [] project.Status = NotStarted -> [acc EXCEPT !.notStartedProjects = @ + 1]
              [] OTHER                       -> acc
    IN  [counted EXCEPT !.totalProgress = @ + OrZero(project.Progress),
                        !.totalBudget = @ + OrZero(project.Budget)]

\* the loop from pass i on
RECURSIVE summaryLoop(_, _, _)
summaryLoop(ps, i, acc) ==
    IF i > Len(ps) THEN acc ELSE summaryLoop(ps, i + 1, summaryPass(acc, ps[i]))

\* the summary getProjectSummary returns when getProjects has returned ps
getProjectSummary(ps) ==
    LET totalProjects == Len(ps)
        acc == summaryLoop(ps, 1, summaryCounters)
    IN  [totalProjects      |-> totalProjects,
         activeProjects     |-> acc.activeProjects,
         completedProjects  |-> acc.completedProjects,
         onHoldProjects     |-> acc.onHoldProjects,
         notStartedProjects |-> acc.notStartedProjects,
         averageProgress    |-> IF totalProjects > 0
                                THEN Quotient(acc.totalProgress, totalProjects)
                                ELSE Quotient(0, 1),
         totalBudget        |-> acc.totalBudget]

\* getProjectSummary is called, getProjects returning the records the store
\* holds
callGetProjectSummary ==
    /\ call' = [op |-> "getProjectSummary", projects |-> projects]
    /\ result' = getProjectSummary(projects)
    /\ UNCHANGED <<dataVars, uiVars, viewVars, panelVars, hookVars>>

GetProjectSummary == callGetProjectSummary

NextBothSummaries ==
    \/ SummaryAddProject
    \/ SummaryRemoveProject
    \/ UpdateSummary
    \/ GetProjectSummary

SpecBothSummaries == Init /\ [][NextBothSummaries]_vars

-----------------------------------------------------------------------------
(* Properties of the data handlers *)

\* the positions of s that hold a record with another Id than id
KeptPositions(s, id) == {i \in 1..Len(s) : s[i].Id # id}

\* t is s without its records of Id id, the others in their order
IsWithoutId(t, s, id) ==
    /\ Len(t) = Cardinality(KeptPositions(s, id))
    /\ \A i \in KeptPositions(s, id) :
           t[Cardinality({k \in KeptPositions(s, id) : k <= i})] = s[i]

HasId(s, id) == \E i \in 1..Len(s) : s[i].Id = id

SelectedId == IF IsSome(selectedProject) THEN Some(ValueOf(selectedProject).Id) ELSE None

\* C3: removeProject(id) removes every record of that Id and no other, keeps
\* the order of the remaining records, clears the selection when the selected
\* record has that Id and leaves the selection alone otherwise.
C3_RemoveProject ==
    [][call'.op = "removeProject" =>
          /\ IsWithoutId(projects', projects, call'.projectId)
          /\ ~HasId(projects', call'.projectId)
          /\ SelectedId = Some(call'.projectId) => selectedProject' = None
          /\ SelectedId # Some(call'.projectId) => selectedProject' = selectedProject
      ]_vars

\* removeProject(1) has left the records of the other Ids and no selection
C3_Witness ==
    /\ call.op = "removeProject"
    /\ call.projectId = 1
    /\ projects = <<r2, r3>>
    /\ selectedProject = None

\* the collection part of updateProject(p): every entry of Id p.Id becomes p
\* where it stands, every other entry stays
IsSwapped(t, s, p) ==
    /\ Len(t) = Len(s)
    /\ \A i \in 1..Len(s) : t[i] = IF s[i].Id = p.Id THEN p ELSE s[i]

\* C4 as stated: updateProject(p) swaps the entry of Id p.Id for p in place,
\* and changes neither the collection nor the selection when no stored record
\* has Id p.Id.
C4_UpdateProject_NoOpWhenAbsent ==
    [][call'.op = "updateProject" =>
          /\ IsSwapped(projects', projects, call'.project)
          /\ ~HasId(projects, call'.project.Id) =>
                 /\ projects' = projects
                 /\ selectedProject' = selectedProject
      ]_vars

\* C4 as amended: updateProject(p) swaps the entry of Id p.Id for p in place;
\* when no stored record has Id p.Id the collection is unchanged, and the
\* selection becomes p exactly when the selected record has Id p.Id and is
\* unchanged otherwise.
C4_UpdateProject ==
    [][call'.op = "updateProject" =>
          /\ IsSwapped(projects', projects, call'.project)
          /\ ~HasId(projects, call'.project.Id) => projects' = projects
          /\ SelectedId = Some(call'.project.Id) =>
                 selectedProject' = Some(call'.project)
          /\ SelectedId # Some(call'.project.Id) =>
                 selectedProject' = selectedProject
      ]_vars

\* updateProject has replaced the middle entry of three by a different record
C4_Witness ==
    /\ call.op = "updateProject"
    /\ Len(projects) = 3
    /\ projects[2] = call.project
    /\ projects[1].Id # call.project.Id
    /\ projects[3].Id # call.project.Id
    /\ call.project = r4

\* C5: addProject(p) appends p as the last element and lengthens the
\* collection by one, also when a record of the same Id is stored; the
\* records already stored keep their positions.
C5_AddProject ==
    [][call'.op = "addProject" =>
          /\ Len(projects') = Len(projects) + 1
          /\ projects'[Len(projects')] = call'.project
          /\ \A i \in 1..Len(projects) : projects'[i] = projects[i]
      ]_vars

\* addProject has added a record whose Id was already stored
C5_Witness ==
    /\ call.op = "addProject"
    /\ Len(projects) >= 2
    /\ \E i \in 1..(Len(projects) - 1) : projects[i].Id = call.project.Id

\* C6: setProjects(records) makes the collection equal to records and sets
\* error to null, whatever the state before.
C6_SetProjects ==
    [][call'.op = "setProjects" =>
          /\ projects' = call'.projects
          /\ error' = None
      ]_vars

\* setProjects has replaced the collection while a record was selected
C6_Witness ==
    /\ call.op = "setProjects"
    /\ projects = <<r2>>
    /\ error = None
    /\ selectedProject = Some(r1)

-----------------------------------------------------------------------------
(* Properties of the bulk handlers *)

\* record q is record p with field f set to v and the modified timestamp set
\* to now, every other field as in p
IsPatched(q, p, f, v, now) ==
    /\ DOMAIN q = DOMAIN p
    /\ q[f] = v
    /\ q.ModifiedDate = Some(now)
    /\ \A g \in DOMAIN p \ {f, "ModifiedDate"} : q[g] = p[g]

\* collection t is collection s with the records of an Id in ids patched and
\* every other record, the length and the order as in s
IsBulkPatched(t, s, ids, f, v, now) ==
    /\ Len(t) = Len(s)
    /\ \A i \in 1..Len(s) :
           IF s[i].Id \in ids THEN IsPatched(t[i], s[i], f, v, now) ELSE t[i] = s[i]

\* C2: bulkUpdateStatus(ids, s) and bulkUpdatePriority(ids, p) change, in the
\* records whose Id is in ids, the patched field and the modified timestamp
\* only; the other fields of those records, the records of other Ids, and the
\* length and order of the collection stay as they were.
C2_BulkUpdate ==
    [][/\ call'.op = "bulkUpdateStatus" =>
              IsBulkPatched(projects', projects, call'.projectIds, "Status",
                            call'.value, call'.now)
       /\ call'.op = "bulkUpdatePriority" =>
              IsBulkPatched(projects', projects, call'.projectIds, "Priority",
                            Some(call'.value), call'.now)
      ]_vars

\* bulkUpdateStatus has patched the first of two records and left the second
C2_Witness ==
    /\ call.op = "bulkUpdateStatus"
    /\ call.projectIds = {1, 3}
    /\ Len(projects) = 2
    /\ projects[1] = [r1 EXCEPT !.Status = call.value, !.ModifiedDate = Some(call.now)]
    /\ projects[1] # r1
    /\ projects[2] = r2

-----------------------------------------------------------------------------
(* Properties of the filtered view *)

\* the name of p contains text, ignoring case
NameContains(p, text) == includes(toLowerCase(p.Name), toLowerCase(text))

\* the criteria of fs other than the free-text search match p; an absent
\* criterion (and an empty tag list) matches every record, and a record
\* without a start date matches every date range
MatchesCriteria(p, fs) ==
    /\ IsSome(fs.status) => p.Status = ValueOf(fs.status)
    /\ IsSome(fs.priority) => p.Priority = fs.priority
    /\ IsSome(fs.owner) => p.Owner = fs.owner
    /\ (IsSome(fs.startDateFrom) /\ IsSome(p.StartDate)) =>
           ValueOf(fs.startDateFrom) <= ValueOf(p.StartDate)
    /\ (IsSome(fs.startDateTo) /\ IsSome(p.StartDate)) =>
           ValueOf(p.StartDate) <= ValueOf(fs.startDateTo)
    /\ (IsSome(fs.tags) /\ ValueOf(fs.tags) # <<>>) =>
           /\ IsSome(p.Tags)
           /\ \E i \in 1..Len(ValueOf(fs.tags)) : \E j \in 1..Len(ValueOf(p.Tags)) :
                  includes(toLowerCase(ValueOf(p.Tags)[j]),
                           toLowerCase(ValueOf(fs.tags)[i]))

\* the free-text search criterion of fs matches p
MatchesCriteriaText(p, fs) ==
    (IsSome(fs.searchText) /\ ValueOf(fs.searchText) # <<>>) =>
        NameContains(p, ValueOf(fs.searchText))

\* C1: the filtered view holds exactly the records, in their stored order,
\* that every specified criterion of the filters (status, priority, owner,
\* free-text search, start-date range, tags) matches and whose name, when
\* searchText is not empty, contains searchText ignoring case.
C1_FilteredView ==
    call.op = "getFilteredProjects" =>
        result = SelectSeq(projects, LAMBDA p :
                     /\ MatchesCriteria(p, filters)
                     /\ MatchesCriteriaText(p, filters)
                     /\ searchText # <<>> => NameContains(p, searchText))

\* the same with the free-text search criterion of the filters left out: what
\* getFilteredProjects does
FilteredViewWithoutCriteriaText ==
    call.op = "getFilteredProjects" =>
        result = SelectSeq(projects, LAMBDA p :
                     /\ MatchesCriteria(p, filters)
                     /\ searchText # <<>> => NameContains(p, searchText))

\* C10: with every filter criterion absent and searchText empty, the filtered
\* view is the whole collection, the same records in the same order.
C10_NoCriteria ==
    (call.op = "getFilteredProjects" /\ filters = initialFilters /\ searchText = <<>>) =>
        result = projects

\* getFilteredProjects has returned two records under the initial filters
C10_Witness ==
    /\ call.op = "getFilteredProjects"
    /\ filters = initialFilters
    /\ searchText = <<>>
    /\ projects = <<r2, r1>>
    /\ result = <<r2, r1>>

-----------------------------------------------------------------------------
(* Properties of sorting *)

\* the value records are ordered by: the name in lower case, a missing
\* priority, progress or start date as 0
SortKey(p, by) ==
    CASE by = "name" -> toLowerCase(p.Name)
      [] by = "status" -> p.Status
      [] by = "priority" -> IF IsSome(p.Priority) THEN ValueOf(p.Priority) ELSE 0
      [] by = "startDate" -> IF IsSome(p.StartDate) THEN ValueOf(p.StartDate) ELSE 0
      [] by = "progress" -> IF IsSome(p.Progress) THEN ValueOf(p.Progress) ELSE 0

KeyLess(by, k1, k2) == IF by = "name" THEN StrLess(k1, k2) ELSE k1 < k2

\* the field of p that is sorted by, as it is stored
FieldValue(p, by) ==
    CASE by = "name" -> p.Name
      [] by = "status" -> p.Status
      [] by = "priority" -> p.Priority
      [] by = "startDate" -> p.StartDate
      [] by = "progress" -> p.Progress

WithKey(s, by, k) == SelectSeq(s, LAMBDA p : SortKey(p, by) = k)

\* C7: sorting is stable in both directions: for every field and for 'asc' as
\* for 'desc', the records of equal sort value stand in the output in the
\* order they have in the input.
C7_Stable ==
    call.op = "sortProjects" =>
        \A i \in 1..Len(call.projects) :
            LET k == SortKey(call.projects[i], call.sortBy)
            IN  WithKey(result, call.sortBy, k) = WithKey(call.projects, call.sortBy, k)

\* a descending sort has kept r1 before r4, which it ties with, and moved r2
\* in front of both
C7_Witness ==
    /\ call.op = "sortProjects"
    /\ call.sortDirection = "desc"
    /\ call.sortBy = "name"
    /\ call.projects = <<r1, r2, r4>>
    /\ result = <<r2, r1, r4>>

\* a descending sort by f of the result of an ascending sort by f
IsDescOfAsc ==
    /\ call.op = "sortProjects"
    /\ call.sortDirection = "asc"
    /\ call'.op = "sortProjects"
    /\ call'.sortDirection = "desc"
    /\ call'.sortBy = call.sortBy
    /\ call'.projects = result

\* C8 as stated: for a collection whose values of the field f are pairwise
\* distinct, sorting the ascending result in descending order gives the
\* reverse of the ascending sequence.
C8_ReverseForDistinctValues ==
    [][(/\ IsDescOfAsc
        /\ \A i, j \in 1..Len(call.projects) :
               i # j => FieldValue(call.projects[i], call.sortBy)
                            # FieldValue(call.projects[j], call.sortBy))
       => result' = Reverse(result)
      ]_vars

\* C8 as amended: for a collection whose sort values under f (the name in
\* lower case, a missing priority, progress or start date as 0) are pairwise
\* distinct, sorting the ascending result in descending order gives the
\* reverse of the ascending sequence.
C8_ReverseForDistinctKeys ==
    [][(/\ IsDescOfAsc
        /\ \A i, j \in 1..Len(call.projects) :
               i # j => SortKey(call.projects[i], call.sortBy)
                            # SortKey(call.projects[j], call.sortBy))
       => result' = Reverse(result)
      ]_vars

\* the ascending result <<r3, r1, r2>> of the stored <<r1, r2, r3>> has been
\* sorted in descending order
C8_Witness ==
    /\ call.op = "sortProjects"
    /\ call.sortDirection = "desc"
    /\ call.sortBy = "name"
    /\ projects = <<r1, r2, r3>>
    /\ call.projects = <<r3, r1, r2>>
    /\ result = <<r2, r1, r3>>

Occurrences(s, x) == Cardinality({i \in 1..Len(s) : s[i] = x})

IsPermutation(s, t) ==
    /\ Len(s) = Len(t)
    /\ \A i \in 1..Len(t) : Occurrences(s, t[i]) = Occurrences(t, t[i])

IsOrdered(s, by, direction) ==
    \A i, j \in 1..Len(s) :
        i < j => IF direction = "asc"
                 THEN ~KeyLess(by, SortKey(s[j], by), SortKey(s[i], by))
                 ELSE ~KeyLess(by, SortKey(s[i], by), SortKey(s[j], by))

\* C9: getSortedProjects returns a permutation of the filtered view that is
\* ordered by the chosen field and direction (a missing number or date as 0),
\* and leaves the stored collection as it was.
C9_SortedView ==
    [][call'.op = "getSortedProjects" =>
          /\ projects' = projects
          /\ IsPermutation(result', filterProjects(projects, filters, searchText))
          /\ IsOrdered(result', sortBy, sortDirection)
      ]_vars

\* getSortedProjects has returned the filtered view in another order than the
\* stored one
C9_Witness ==
    /\ call.op = "getSortedProjects"
    /\ searchText = <<"b">>
    /\ sortBy = "priority"
    /\ sortDirection = "desc"
    /\ projects = <<r1, r3, r2>>
    /\ result = <<r2, r1>>

-----------------------------------------------------------------------------
(* Properties of the summary *)

\* the number of records of s whose status is one of set
CountIn(s, set) == Cardinality({i \in 1..Len(s) : s[i].Status \in set})

NotBrokenOut == {Cancelled, UnderReview, Approved, Rejected}

\* C18: after updateSummary the four buckets and the number of records whose
\* status is Cancelled, UnderReview, Approved or Rejected add up to
\* totalProjects, which is the length of the collection.
C18_Buckets ==
    call.op = "updateSummary" =>
        LET s == ValueOf(projectSummary)
        IN  /\ s.totalProjects = Len(projects)
            /\ s.activeProjects + s.completedProjects + s.onHoldProjects
                 + s.notStartedProjects + CountIn(projects, NotBrokenOut)
               = s.totalProjects

\* a summary of a record in a bucket and a record outside every bucket
C18_Witness ==
    /\ call.op = "updateSummary"
    /\ projects = <<r6, r7>>
    /\ ValueOf(projectSummary).onHoldProjects = 1
    /\ ValueOf(projectSummary).totalProjects = 2

\* the value of an optional number, 0 when it is missing
Present(o) == IF IsSome(o) THEN ValueOf(o) ELSE 0

RECURSIVE SumOf(_, _)
SumOf(s, field) ==
    IF s = <<>> THEN 0 ELSE Present(Head(s)[field]) + SumOf(Tail(s), field)

\* C19: the summary has averageProgress * totalProjects = the sum of the
\* records' progress and totalBudget = the sum of their budget, a missing
\* value counted as 0; for the empty collection every count, the average and
\* the total budget are 0, and the average is never a quotient by zero.
C19_Totals ==
    call.op = "updateSummary" =>
        LET s == ValueOf(projectSummary)
            avg == s.averageProgress
        IN  /\ avg.den # 0
            /\ avg.num * s.totalProjects = SumOf(projects, "Progress") * avg.den
            /\ s.totalBudget = SumOf(projects, "Budget")
            /\ projects = <<>> =>
                 /\ avg.num = 0
                 /\ s.totalBudget = 0
                 /\ s.totalProjects = 0
                 /\ s.activeProjects = 0
                 /\ s.completedProjects = 0
                 /\ s.onHoldProjects = 0
                 /\ s.notStartedProjects = 0

\* a summary of a record without progress and budget and a record with both
C19_Witness ==
    /\ call.op = "updateSummary"
    /\ projects = <<r1, r2>>
    /\ ValueOf(projectSummary).averageProgress = Quotient(50, 2)
    /\ ValueOf(projectSummary).totalBudget = 10

\* the summary of the empty collection
C19_WitnessEmpty ==
    /\ call.op = "updateSummary"
    /\ projects = <<>>
    /\ ValueOf(projectSummary).totalProjects = 0

-----------------------------------------------------------------------------
(* Properties of the status transitions *)

\* the transition table
NextStates(status) ==
    CASE status = NotStarted  -> {InProgress, OnHold, Cancelled}
      [] status = InProgress  -> {Completed, OnHold, UnderReview}
      [] status = OnHold      -> {InProgress, Cancelled}
      [] status = UnderReview -> {Approved, Rejected, InProgress}
      [] status = Approved    -> {InProgress}
      [] status = Rejected    -> {InProgress, Cancelled}
      [] status = Completed   -> {UnderReview}
      [] status = Cancelled   -> {NotStarted}

StatusEnum == {NotStarted, InProgress, Completed, OnHold, Cancelled,
               UnderReview, Approved, Rejected}

Elements(s) == {s[i] : i \in 1..Len(s)}

\* C20: getNextStatusOptions returns exactly the statuses of the transition
\* table for each of the eight status codes, and nothing for a number that is
\* not a status code.
C20_NextStatusOptions ==
    call.op = "getNextStatusOptions" =>
        IF call.currentStatus \in StatusEnum
        THEN Elements(result) = NextStates(call.currentStatus)
        ELSE result = <<>>

\* the options of a completed project have been asked for
C20_Witness ==
    /\ call.op = "getNextStatusOptions"
    /\ call.currentStatus = Completed
    /\ result = <<UnderReview>>

\* the options of a number outside the enumeration have been asked for
C20_WitnessOutside ==
    /\ call.op = "getNextStatusOptions"
    /\ call.currentStatus = 8
    /\ result = <<>>

-----------------------------------------------------------------------------
(* Properties of useProjectsQuery and useProjectQuery *)

\* the `state` of component h's hook
QueryStateOf(qs, h) == ValueOf(qs[h])

\* a call of fetchProjects or fetchProject has settled
Settled(c, how) == c.op \in {"fetchProjects", "fetchProject"} /\ c.settled = how

\* C13: when a list fetch fails after an earlier fetch of the same hook
\* succeeded, the collection of the store and the data of the hook are what
\* they were, and the error is set in the store and in the hook.
C13_FailedFetchKeepsData ==
    [][(/\ call'.op = "fetchProjects"
        /\ call'.settled = "rejected"
        /\ ~call'.isCancelled
        /\ QueryStateOf(queryState, call'.hook).isSuccess)
       => /\ projects' = projects
          /\ QueryStateOf(queryState', call'.hook).data
               = QueryStateOf(queryState, call'.hook).data
          /\ IsSome(error')
          /\ QueryStateOf(queryState', call'.hook).isError
      ]_vars

\* what of C13 the code keeps: the collection of the store is what it was and
\* the error is set in the store and in the hook
C13_FailedFetchKeepsCollection ==
    [][(/\ call'.op = "fetchProjects"
        /\ call'.settled = "rejected"
        /\ ~call'.isCancelled
        /\ QueryStateOf(queryState, call'.hook).isSuccess)
       => /\ projects' = projects
          /\ QueryStateOf(queryState', call'.hook).data = None
          /\ IsSome(error')
          /\ QueryStateOf(queryState', call'.hook).isError
      ]_vars

\* C14: a fetch whose effect was cleaned up while it was in flight (the
\* component unmounted, or rendered with other filters or another projectId)
\* changes, when it settles, neither the collection and the error of the
\* store nor the `state` of any hook.
C14_CancelledFetch ==
    [][(/\ call'.op \in {"fetchProjects", "fetchProject"}
        /\ call'.isCancelled)
       => /\ projects' = projects
          /\ error' = error
          /\ queryState' = queryState
      ]_vars

\* a fetch of the list cancelled by other filters has failed: the store has
\* the projects and no error, the hook is loading the next fetch
C14_Witness ==
    /\ Settled(call, "rejected")
    /\ call.op = "fetchProjects"
    /\ call.isCancelled
    /\ projects = <<r1, r2>>
    /\ error = None
    /\ IsSome(queryState[1])
    /\ QueryStateOf(queryState, 1).isLoading

\* a fetch of one project cancelled by the unmount has returned: there is no
\* `state` to hold it
C14_WitnessProject ==
    /\ Settled(call, "resolved")
    /\ call.op = "fetchProject"
    /\ call.isCancelled
    /\ queryState[3] = None

\* C15: every fetch that was not cancelled is applied when it settles,
\* whichever fetches are in flight with it and whichever was started first:
\* the collection of the store is what the fetch that returned last has read.
C15_LastCompletionWins ==
    [][(/\ call'.op = "fetchProjects"
        /\ call'.settled = "resolved"
        /\ ~call'.isCancelled)
       => /\ projects' = call'.projects
          /\ QueryStateOf(queryState', call'.hook).data = Some(call'.projects)
      ]_vars

\* two fetches overlap: the one started second has returned while the one
\* started first is still in flight and not cancelled, and the store holds
\* what the second has read
C15_Witness ==
    /\ call.op = "fetchProjects"
    /\ call.settled = "resolved"
    /\ ~call.isCancelled
    /\ call.index = 2
    /\ Len(fetches) = 1
    /\ ~fetches[1].isCancelled
    /\ call.projects = <<r2, r3>>
    /\ projects = <<r2, r3>>

-----------------------------------------------------------------------------
(* Properties of the mutation hooks of useProjectData.ts *)

\* C16: when the remote create, update or delete call fails, the collection
\* and the selection of the store are what they were before, the error is
\* recorded in the state of the mutation hook, and the promise of mutate is
\* rejected with what the remote call threw.
C16_FailedMutation ==
    [][(call'.op = "mutate" /\ call'.settled = "rejected")
       => /\ projects' = projects
          /\ selectedProject' = selectedProject
          /\ mutationState'[call'.kind].isError
          /\ ~mutationState'[call'.kind].isSuccess
          /\ IsSome(mutationState'[call'.kind].error)
          /\ result'.settled = "rejected"
          /\ result'.thrown = call'.thrown
      ]_vars

\* the deletion of the selected project has failed with a value that is no
\* Error: the project is still stored and selected
C16_Witness ==
    /\ call.op = "mutate"
    /\ call.settled = "rejected"
    /\ call.kind = "delete"
    /\ call.variables = 1
    /\ call.thrown = None
    /\ projects = <<r1, r2>>
    /\ selectedProject = Some(r1)
    /\ mutationState["delete"].error = Some("Failed to delete project")
    /\ result.settled = "rejected"

-----------------------------------------------------------------------------
(* Properties of the query cache *)

IsListKey(key) == key[2] = "list"

\* the staleness threshold of a key, in minutes
Threshold(key) == IF key[2] = "detail" THEN 2 ELSE 5

\* the cached data of key are younger than the threshold at time t
IsYoung(c, key, t) == t < ValueOf(c[key]).dataUpdatedAt + Threshold(key)

\* C12: invalidateLists marks every cached list query, whatever its filters,
\* and leaves every query of another prefix as it is; the next read of a
\* marked query fetches it again although its data are younger than the
\* staleness threshold, and the read of a query that is not marked fetches
\* it only when its data are as old as the threshold.
C12_InvalidatedListsAreStale ==
    [][/\ call'.op = "invalidateLists" =>
            \A k \in QueryKeys :
                IF IsListKey(k)
                THEN cache[k] # None => ValueOf(cache'[k]).isInvalidated
                ELSE cache'[k] = cache[k]
       /\ (call'.op = "useQuery" /\ cache[call'.key] # None) =>
            /\ ValueOf(cache[call'.key]).isInvalidated => call'.key \in fetching'
            /\ ~ValueOf(cache[call'.key]).isInvalidated =>
                   (call'.key \in fetching' <=> ~IsYoung(cache, call'.key, time))
      ]_vars

\* both lists were cached, the lists were invalidated with the project and
\* the summary cached too, and now the list with filters is read: it is
\* fetched again although it is a minute old; the project and the summary
\* are not marked
C12_Witness ==
    /\ call.op = "useQuery"
    /\ call.key = projectKeys_list(Some(InProgress))
    /\ result.isStale
    /\ projectKeys_list(Some(InProgress)) \in fetching
    /\ cache[projectKeys_list(Some(InProgress))] # None
    /\ ValueOf(cache[projectKeys_list(Some(InProgress))]).isInvalidated
    /\ IsYoung(cache, projectKeys_list(Some(InProgress)), time)
    /\ cache[projectKeys_list(None)] # None
    /\ ValueOf(cache[projectKeys_list(None)]).isInvalidated
    /\ cache[projectKeys_detail(1)] # None
    /\ ~ValueOf(cache[projectKeys_detail(1)]).isInvalidated
    /\ IsYoung(cache, projectKeys_detail(1), time)
    /\ cache[projectKeys_summary] # None
    /\ ~ValueOf(cache[projectKeys_summary]).isInvalidated

\* the project is read after the lists were invalidated: it is not fetched
C12_WitnessDetail ==
    /\ call.op = "useQuery"
    /\ call.key = projectKeys_detail(1)
    /\ ~result.isStale
    /\ fetching = {}
    /\ cache[projectKeys_list(None)] # None
    /\ ValueOf(cache[projectKeys_list(None)]).isInvalidated

-----------------------------------------------------------------------------
(* Properties of the mutation hooks of useProjectQueries.ts *)

\* every cached query of the list and of the summary family is marked in c
ListsAndSummaryInvalidated(c) ==
    \A k \in QueryKeys :
        (k[2] \in {"list", "summary"} /\ c[k] # None) => ValueOf(c[k]).isInvalidated

\* a mutation has succeeded and its onSuccess has run
MutationSucceeded(c) == c.op = "mutationFn" /\ c.settled = "resolved"

\* the key of the project a mutation was about: the project returned, or for
\* a deletion the id given
RecordKey(c) ==
    projectKeys_detail(IF c.kind = "delete" THEN c.variables ELSE c.returned.Id)

\* C11 as stated: after every successful create, update or delete the
\* cached list and summary queries are invalidated and the cached query of
\* the project holds the project the mutation returned.
C11_WriteThrough ==
    [][MutationSucceeded(call') =>
          /\ ListsAndSummaryInvalidated(cache')
          /\ cache'[RecordKey(call')] # None
          /\ ValueOf(cache'[RecordKey(call')]).data = call'.returned
      ]_vars

\* C11: after every successful create, update or delete the cached list and
\* summary queries are invalidated; after an update the cached query of the
\* project holds the project returned, written at that time and not
\* invalidated; after a deletion the project has no cached query; after a
\* creation the query of the project is what it was.
C11_CacheAfterMutation ==
    [][MutationSucceeded(call') =>
          /\ ListsAndSummaryInvalidated(cache')
          /\ call'.kind = "update" =>
                 cache'[RecordKey(call')] = Some(Entry(call'.returned, time))
          /\ call'.kind = "delete" => cache'[RecordKey(call')] = None
          /\ call'.kind = "create" => cache'[RecordKey(call')] = cache[RecordKey(call')]
      ]_vars

\* project 1 was cached as r1 and the list was cached; an update has returned
\* r4: the project's query holds r4 and the list is invalidated
C11_Witness ==
    /\ MutationSucceeded(call)
    /\ call.kind = "update"
    /\ call.returned = r4
    /\ cache[projectKeys_detail(1)] = Some(Entry(r4, 0))
    /\ cache[projectKeys_list(None)] # None
    /\ ValueOf(cache[projectKeys_list(None)]).isInvalidated
    /\ projects = <<r4, r2>>

\* the summary of the store is the summary of its collection
SummaryMatches ==
    /\ IsSome(projectSummary)
    /\ LET s == ValueOf(projectSummary)
       IN  /\ s.totalProjects = Len(projects)
           /\ s.activeProjects = CountIn(projects, {InProgress})
           /\ s.completedProjects = CountIn(projects, {Completed})
           /\ s.onHoldProjects = CountIn(projects, {OnHold})
           /\ s.notStartedProjects = CountIn(projects, {NotStarted})

\* C17: after any successful create, update or delete the summary is
\* eventually recomputed, so that totalProjects is the number of projects in
\* the collection and the bucket counts are those of their statuses.
C17_SummaryRecomputed == [](MutationSucceeded(call) => <>SummaryMatches)

\* what of C17 the code does: the list fetched again after a mutation and
\* returned to its observer leaves the summary matching the collection
C17_SummaryAfterRefetch ==
    (/\ call.op = "queryFn"
     /\ call.settled = "resolved"
     /\ call.key[2] = "list"
     /\ call.key \in observers) => SummaryMatches

-----------------------------------------------------------------------------
(* Properties of the panel handlers *)

\* C21: openPanel with a project leaves the panel open, that project
\* selected and edit mode on; openPanel without a project leaves the panel
\* open, nothing selected and edit mode off; closePanel leaves the panel
\* closed, nothing selected and edit mode off, whatever the state before;
\* none of them changes the collection.
C21_PanelStateMachine ==
    [][/\ (call'.op = "openPanel" /\ call'.project # None) =>
              /\ isPanelOpen'
              /\ selectedProject' = call'.project
              /\ isEditMode'
       /\ (call'.op = "openPanel" /\ call'.project = None) =>
              /\ isPanelOpen'
              /\ selectedProject' = None
              /\ ~isEditMode'
       /\ call'.op = "closePanel" =>
              /\ ~isPanelOpen'
              /\ selectedProject' = None
              /\ ~isEditMode'
       /\ call'.op \in {"openPanel", "closePanel"} => projects' = projects
      ]_vars

\* the panel has been opened for r2 on a collection that holds it
C21_Witness ==
    /\ call.op = "openPanel"
    /\ call.project = Some(r2)
    /\ isPanelOpen
    /\ isEditMode
    /\ selectedProject = Some(r2)
    /\ projects = <<r1, r2>>

\* the panel has been closed again
C21_WitnessClosed ==
    /\ call.op = "closePanel"
    /\ ~isPanelOpen
    /\ selectedProject = None
    /\ projects = <<r1, r2>>

-----------------------------------------------------------------------------
(* Properties of the selection *)

\* the collection holds a record with the Id of the selected project
SelectionStored ==
    /\ IsSome(selectedProject)
    /\ \E i \in 1..Len(projects) : projects[i].Id = ValueOf(selectedProject).Id

\* C26: in every reachable state, if a project is selected and the
\* collection holds a record with its Id, the selected project is such a
\* record of the collection, field by field.
C26_SelectionNotStale ==
    SelectionStored => \E i \in 1..Len(projects) : projects[i] = ValueOf(selectedProject)

\* what of C26 the code does: updateProject and removeProject leave the
\* selection equal to the stored record of its Id, if it was before
C26_UpdateKeepsSelection ==
    [][(call'.op \in {"updateProject", "removeProject"} /\ C26_SelectionNotStale)
          => C26_SelectionNotStale']_vars

-----------------------------------------------------------------------------
(* Properties of useQueryProjects *)

\* the hook state, once the hook is mounted
ServiceState == ValueOf(queryProjects)

\* C22: every fetchData call, the first or a refetch, eventually settles;
\* when it settles isLoading is false, and when its SharePoint read failed
\* the data of the hook are the eight mock projects.
C22_FetchDataSettles ==
    /\ [][(call'.op = "fetchData" /\ call'.settled = "settled") =>
             /\ ~ValueOf(queryProjects').isLoading
             /\ call'.read = None =>
                    /\ Len(ValueOf(queryProjects').data) = 8
                    /\ ValueOf(queryProjects').data = getMockData
         ]_vars
    /\ \A id \in FetchCallIds : (id \in fetchDataCalls) ~> (id \notin fetchDataCalls)

\* a refetch has failed after the first fetch had read two projects: the
\* hook shows the mock projects and is not loading
C22_Witness ==
    /\ call.op = "fetchData"
    /\ call.id = 2
    /\ call.read = None
    /\ fetchDataCalls = {}
    /\ ServiceState.data = getMockData
    /\ ~ServiceState.isLoading

\* C30: isLoading of the hook is true whenever a fetchData call is in
\* flight, also when a refetch overlaps a fetch that has not completed.
C30_LoadingWhileInFlight ==
    fetchDataCalls # {} => ServiceState.isLoading

\* what of C30 the code does: while a single call is in flight and none
\* has settled since it started, isLoading is true
C30_LoadingAfterStart ==
    (call.op \in {"useQueryProjects", "refetch"}) => ServiceState.isLoading

-----------------------------------------------------------------------------
(* Properties of the retry option of useProjects *)

\* the failure is an authorization denial: Unauthorized or Forbidden
PermissionError(thrown) == includes(thrown, "Unauthorized") \/ includes(thrown, "Forbidden")

\* C23: a failed list fetch is never retried when it failed with a
\* permission error (Unauthorized or Forbidden), any other failure is
\* retried at most twice, and the fetch never makes more than three attempts.
C23_RetryPolicy ==
    [][call'.op = "retry" =>
          /\ ~PermissionError(call'.thrown)
          /\ call'.failureCount < 2
          /\ attempts' <= 3
      ]_vars

\* what of C23 the code does: an Unauthorized failure is never retried, no
\* failure is retried more than twice and no fetch makes more than three
\* attempts
C23_RetryBounded ==
    [][call'.op = "retry" =>
          /\ ~includes(call'.thrown, "Unauthorized")
          /\ call'.failureCount < 2
          /\ attempts' <= 3
      ]_vars

-----------------------------------------------------------------------------
(* Properties of the start-date range of the filtered view *)

\* no criterion but the start-date range is set, and searchText is empty
OnlyDateRange ==
    /\ filters.status = None
    /\ filters.priority = None
    /\ filters.owner = None
    /\ filters.tags = None
    /\ searchText = <<>>

\* p has no start date, or its start date is neither before startDateFrom
\* nor after startDateTo, each bound counting only when it is set
InDateRange(p, fs) ==
    p.StartDate # None =>
        /\ fs.startDateFrom # None => ValueOf(p.StartDate) >= ValueOf(fs.startDateFrom)
        /\ fs.startDateTo # None => ValueOf(p.StartDate) <= ValueOf(fs.startDateTo)

\* C24: the start-date range is inclusive on both bounds: a record whose
\* start date equals startDateFrom or startDateTo passes, one strictly
\* outside fails, and a record with no start date passes every range.
C24_DateRangeInclusive ==
    (call.op = "getFilteredProjects" /\ OnlyDateRange) =>
        result = SelectSeq(projects, LAMBDA p : InDateRange(p, filters))

\* the range is [1, 1]: r2, which starts at 1, passes and r4, which starts
\* at 0, does not
C24_Witness ==
    /\ call.op = "getFilteredProjects"
    /\ OnlyDateRange
    /\ filters.startDateFrom = Some(1)
    /\ filters.startDateTo = Some(1)
    /\ projects = <<r2, r4>>
    /\ result = <<r2>>

\* the range is [1, 1]: r1, which has no start date, passes and r3, which
\* starts at 2, does not
C24_WitnessNoDate ==
    /\ call.op = "getFilteredProjects"
    /\ OnlyDateRange
    /\ filters.startDateFrom = Some(1)
    /\ filters.startDateTo = Some(1)
    /\ projects = <<r1, r3>>
    /\ result = <<r1>>

-----------------------------------------------------------------------------
(* Properties of the two search texts *)

\* the free-text search of the filter criteria, absent read as empty
CriteriaText == IF filters.searchText = None THEN <<>> ELSE ValueOf(filters.searchText)

\* C27: in every reachable state the top-level searchText and the
\* searchText of the filters are the same text, absent read as empty,
\* whatever the interleaving of setSearchText and setFilters.
C27_SearchTextsAgree == searchText = CriteriaText

\* what of C27 the code does: setSearchText leaves the two texts the same
C27_SetSearchTextAgrees ==
    [][call'.op = "setSearchText" =>
          /\ searchText' = call'.text
          /\ filters'.searchText = Some(call'.text)
      ]_vars

-----------------------------------------------------------------------------
(* Properties of the loading flag under useProjectsQuery *)

\* C25: once every fetch started by useProjectsQuery has completed, the
\* isLoading of the store is false, also when a fetch was cancelled by the
\* teardown of its component while it was in flight.
C25_LoadingCleared == fetches = <<>> => ~isLoading

\* what of C25 the code does: a fetch that completes without having been
\* cancelled leaves isLoading false
C25_UncancelledClears ==
    (call.op = "fetchProjects" /\ ~call.isCancelled) => ~isLoading

-----------------------------------------------------------------------------
(* Properties of the status transition graph *)

\* the statuses one allowed transition away from a status of S, and S
StepFrom(S) == S \cup UNION {Elements(getNextStatusOptions(s)) : s \in S}

RECURSIVE ReachableIn(_, _)
ReachableIn(S, n) == IF n = 0 THEN S ELSE ReachableIn(StepFrom(S), n - 1)

\* the statuses a chain of one or more allowed transitions leads to from status
ReachableFrom(status) ==
    ReachableIn(Elements(getNextStatusOptions(status)), Cardinality(StatusEnum))

\* C29: the transition graph has no dead end and is strongly connected:
\* each of the eight statuses has at least one next status, and from each
\* of them every other status is reached through allowed transitions.
C29_StronglyConnected ==
    (call.op = "getNextStatusOptions" /\ call.currentStatus \in StatusEnum) =>
        /\ result # <<>>
        /\ StatusEnum \ {call.currentStatus} \subseteq ReachableFrom(call.currentStatus)

\* a stored project has been taken along allowed transitions to Rejected,
\* a status no loaded project has, and its options are asked for
C29_Witness ==
    /\ call.op = "getNextStatusOptions"
    /\ call.currentStatus = Rejected
    /\ \E i \in 1..Len(projects) : projects[i].Status = Rejected
    /\ result = <<InProgress, Cancelled>>

-----------------------------------------------------------------------------
(* Properties of the two summaries *)

\* C28: the two summary implementations agree: on the same records,
\* getProjectSummary of the service returns the totalProjects, the four
\* bucket counts, the averageProgress and the totalBudget that updateSummary
\* of the store computes.
C28_SummariesAgree ==
    call.op = "getProjectSummary" =>
        LET s == summary(call.projects)
        IN  /\ result.totalProjects = s.totalProjects
            /\ result.activeProjects = s.activeProjects
            /\ result.completedProjects = s.completedProjects
            /\ result.onHoldProjects = s.onHoldProjects
            /\ result.notStartedProjects = s.notStartedProjects
            /\ result.averageProgress = s.averageProgress
            /\ result.totalBudget = s.totalBudget

\* the store has summarised an in-progress and a cancelled project, and the
\* service has returned the same summary for them
C28_Witness ==
    /\ call.op = "getProjectSummary"
    /\ projects = <<r1, r5>>
    /\ projectSummary = Some(result)
    /\ result.activeProjects = 1
    /\ result.averageProgress = Quotient(25, 2)

====
